---- MODULE Spec2Model ----
(***************************************************************************)
(* A model of NetDim's Network class (src/NetDim/network.py): the graph    *)
(* store with its factories and removals, and the calculate_all pipeline   *)
(* (addressing, routing-table construction, traffic routing).              *)
(*                                                                         *)
(* The specifications share the variables:                                 *)
(*   Spec      the store: nf, lf, AS_factory, of, remove_link,             *)
(*             remove_node (a generator, advanced one next() at a time)    *)
(*             and erase_network, called in any order;                     *)
(*   SpecAddr  ip_allocation, subnetwork_allocation, interface_allocation  *)
(*             on a topology drawn from a bounded family, every set        *)
(*             iterated in every order;                                    *)
(*   SpecCalc  one run of calculate_all on such a topology, one step per   *)
(*             statement and one per turn of the while loops of            *)
(*             RFT_LB_builder and RFT_path_finder; the addressing steps    *)
(*             iterate their sets in the order of creation (the addresses  *)
(*             and interface numbers are only copied and compared for      *)
(*             equality afterwards), every later loop in every order;      *)
(*   SpecSquare  the same run of calculate_all on four routers, the        *)
(*             square with a diagonal, in one RIP AS;                      *)
(*   SpecAlgo  one call of a path algorithm (dijkstra, A_star,             *)
(*             bellman_ford, traffic_routing, floyd_warshall, bhandari,    *)
(*             suurbale) on four routers without AS, each algorithm a      *)
(*             function of the graph, the trunk fields and the orders in   *)
(*             which sets are iterated;                                    *)
(*   SpecFlow  one call of a flow algorithm (ford_fulkerson,               *)
(*             edmonds_karp, dinic) on the same routers;                   *)
(*   SpecPair  one call of bhandari or suurbale alone, on the topologies   *)
(*             of SpecAlgo;                                                *)
(*   SpecBellman  one call of bellman_ford with costs below 0;             *)
(*   SpecWalk  one call of A_star_shortest_pair;                           *)
(*   SpecProto  one call of OSPF_routing or ISIS_routing in an AS of       *)
(*             three areas;                                                *)
(*   SpecTwice  two runs of calculate_all, one after the other, on the     *)
(*             topologies of SpecSquare;                                   *)
(*   SpecAsym  one run of calculate_all on the square with costs that      *)
(*             differ by direction.                                        *)
(***************************************************************************)
EXTENDS Integers, Sequences, FiniteSets, TLC

VARIABLES
    net,     \* the Network object: pn, pnAS, graph, cpt_link, cpt_node, cpt_AS
    gen,     \* the generator object returned by remove_node, if one is live
    call,    \* the last call made: on the store, or of an algorithm with its result
    cfg,     \* how calculate_all is run: the ECMP cap K, the iteration orders
    asys,    \* the ASes in the order of pnAS: type, member trunks and nodes, areas
    tk,      \* the fields of each trunk, by trunk name
    router,  \* the fields of each router, by node name: ipaddress, rt
    pc,      \* where calculate_all stands
    lb,      \* the local variables of the running RFT_LB_builder
    pf,      \* the local variables of the running RFT_path_finder
    tf,      \* the fields of each traffic demand, by name: throughput, path
    log      \* the steps calculate_all has taken so far, in order

storeVars == <<net, gen, call>>

calcVars == <<cfg, asys, tk, router, pc, lb, pf, tf, log>>

(***************************************************************************)
(* Names.  A name is modelled as <<prefix, n>>, standing for the string    *)
(* prefix + str(n); the counters only ever append a decimal number to one  *)
(* of the fixed prefixes "node", "AS", "trunk", "route", "traffic", so the *)
(* pair determines the string.  None (and "", which `not name` treats the  *)
(* same way) is <<"", 0>>.                                                 *)
(***************************************************************************)
None == <<"", 0>>

AutoName(prefix, cpt) == <<prefix, cpt>>

\* Network.link_type
link_type == {"trunk", "route", "traffic"}

\* the keys of Network.pn
pool_type == {"node"} \cup link_type

\* Bounds of the store model.
MaxCreated == 3      \* entities created over a run, all kinds together

\* The names callers pass explicitly: one that a counter will generate
\* later, and one that no counter generates.
NodeNameArgs == {AutoName("node", 2)}
LinkNameArgs == {AutoName("trunk", 2)}
ASNameArgs == {AutoName("AS", 2)}
SubtypeArgs == {"router", "host"}
ProtocolArgs == {"ethernet"}
ASTypeArgs == {"RIP", "OSPF"}

\* objects.Node / objects.Link / AS.AutonomousSystem, reduced to the fields
\* the store reads: the constructors only record their arguments.
NodeObject(name, subtype) == [name |-> name, subtype |-> subtype]

LinkObject(type, protocol, name, s, d) ==
    [name |-> name, type |-> type, source |-> s, destination |-> d,
     subtype |-> IF type = "trunk" THEN protocol ELSE type]

ASObject(name, type) == [name |-> name, type |-> type]

(***************************************************************************)
(* A reference to a node (a link's source and destination, a key of        *)
(* graph, the argument of remove_node) is modelled by the node's name: the *)
(* callers pass nodes of the pool, where the name determines the object.   *)
(* None as an endpoint (lf's defaults s=None, d=None) is the name None.    *)
(***************************************************************************)

EmptyPool == [x \in {} |-> None]

EmptyAdj == [t \in link_type |-> {}]

\* Network.__init__
NewNetwork ==
    [pn |-> [t \in pool_type |-> EmptyPool],
     pnAS |-> EmptyPool,
     graph |-> [x \in {} |-> EmptyAdj],
     cpt_link |-> 1, cpt_node |-> 1, cpt_AS |-> 1]

\* d[k] = v on a dict
DictSet(d, k, v) == [x \in DOMAIN d \cup {k} |-> IF x = k THEN v ELSE d[x]]

\* d.pop(k, None): the dict without key k
DictPop(d, k) == [x \in DOMAIN d \ {k} |-> d[x]]

\* graph[x]: a defaultdict creates the key when it is read
GraphTouch(g, x) == IF x \in DOMAIN g THEN g ELSE DictSet(g, x, EmptyAdj)

\* graph[x][type].add((y, link))
GraphAdd(g, x, type, y, link) ==
    LET g1 == GraphTouch(g, x)
    IN  [g1 EXCEPT ![x][type] = @ \cup {<<y, link>>}]

\* graph[x][type].discard((y, link))
GraphDiscard(g, x, type, y, link) ==
    LET g1 == GraphTouch(g, x)
    IN  [g1 EXCEPT ![x][type] = @ \ {<<y, link>>}]

(***************************************************************************)
(* The factories, as functions from the network to the network after the   *)
(* call and the value returned.                                            *)
(***************************************************************************)
Result(n, r) == [net |-> n, ret |-> r]

lf_mutant_recreate(n, protocol, ltype, name, s, d) ==
    LET nm == IF name = None THEN AutoName(ltype, n.cpt_link) ELSE name
        new_link == LinkObject(ltype, protocol, nm, s, d)
        g1 == GraphAdd(n.graph, s, ltype, d, new_link)
        g2 == GraphAdd(g1, d, ltype, s, new_link)
    IN  Result([n EXCEPT !.cpt_link = @ + 1,
                         !.pn[ltype] = DictSet(@, nm, new_link),
                         !.graph = g2],
               new_link)

lf_mutant_one_side(n, protocol, ltype, name, s, d) ==
    LET nm == IF name = None THEN AutoName(ltype, n.cpt_link) ELSE name
        new_link == LinkObject(ltype, protocol, nm, s, d)
    IN  IF nm \notin DOMAIN n.pn[ltype]
        THEN Result([n EXCEPT !.cpt_link = @ + 1,
                              !.pn[ltype] = DictSet(@, nm, new_link),
                              !.graph = GraphAdd(@, s, ltype, d, new_link)],
                    new_link)
        ELSE Result(n, n.pn[ltype][nm])

\* Network.lf
lf(n, protocol, ltype, name, s, d) ==
    LET nm == IF name = None THEN AutoName(ltype, n.cpt_link) ELSE name
        new_link == LinkObject(ltype, protocol, nm, s, d)
        g1 == GraphAdd(n.graph, s, ltype, d, new_link)
        g2 == GraphAdd(g1, d, ltype, s, new_link)
    IN  IF nm \notin DOMAIN n.pn[ltype]
        THEN Result([n EXCEPT !.cpt_link = @ + 1,
                              !.pn[ltype] = DictSet(@, nm, new_link),
                              !.graph = g2],
                    new_link)
        ELSE Result(n, n.pn[ltype][nm])

\* Network.nf
nf(n, node_type, name) ==
    LET nm == IF name = None THEN AutoName("node", n.cpt_node) ELSE name
    IN  IF nm \notin DOMAIN n.pn.node
        THEN Result([n EXCEPT !.pn.node = DictSet(@, nm, NodeObject(nm, node_type)),
                              !.cpt_node = @ + 1],
                    NodeObject(nm, node_type))
        ELSE Result(n, n.pn.node[nm])

\* Network.AS_factory
AS_factory(n, name, type) ==
    LET nm == IF name = None THEN AutoName("AS", n.cpt_AS) ELSE name
    IN  IF nm \notin DOMAIN n.pnAS
        THEN Result([n EXCEPT !.pnAS = DictSet(@, nm, ASObject(nm, type)),
                              !.cpt_AS = @ + 1],
                    ASObject(nm, type))
        ELSE Result(n, n.pnAS[nm])

\* Network.of: a link is looked up with lf(name=name), that is with the
\* defaults link_type="trunk", protocol="ethernet", s=None, d=None.
of(n, name, type) ==
    IF type = "node"
    THEN nf(n, "router", name)
    ELSE lf(n, "ethernet", "trunk", name, None, None)

\* Network.erase_network
erase_network(n) ==
    [n EXCEPT !.graph = [x \in {} |-> EmptyAdj],
              !.pn = [t \in pool_type |-> EmptyPool]]

remove_link_mutant_one_side(n, link) ==
    LET g1 == GraphDiscard(n.graph, link.source, link.type, link.destination, link)
    IN  [n EXCEPT !.graph = g1,
                  !.pn[link.type] = DictPop(@, link.name)]

\* Network.remove_link
remove_link(n, link) ==
    LET g1 == GraphDiscard(n.graph, link.source, link.type, link.destination, link)
        g2 == GraphDiscard(g1, link.destination, link.type, link.source, link)
    IN  [n EXCEPT !.graph = g2,
                  !.pn[link.type] = DictPop(@, link.name)]

(***************************************************************************)
(* Network.remove_node is a generator function: the call runs nothing, the *)
(* first next() runs the body up to the first yield, each later next()     *)
(* runs from one yield to the following one, and the last next() finds     *)
(* both loops exhausted.                                                   *)
(***************************************************************************)
\* the (type_link, neighbor, adj_link) triples the two nested loops go through
AdjItems(adj) == UNION {{<<t, e[1], e[2]>> : e \in adj[t]} : t \in link_type}

\* lines 147-149: what the first next() runs before it enters the loops
remove_node_enter(n, node) ==
    [net |-> [n EXCEPT !.pn.node = DictPop(@, node),
                       !.graph = DictPop(@, node)],
     todo |-> IF node \in DOMAIN n.graph THEN AdjItems(n.graph[node]) ELSE {}]

remove_node_body_mutant_keep_neighbor(n, node, item) ==
    [n EXCEPT !.pn[item[1]] = DictPop(@, item[3].name)]

\* lines 152-153: one turn of the inner loop, for item = (type_link, neighbor, adj_link)
remove_node_body(n, node, item) ==
    [n EXCEPT !.graph = GraphDiscard(@, item[2], item[1], node, item[3]),
              !.pn[item[1]] = DictPop(@, item[3].name)]

\* None where a link is expected
NoneLink == LinkObject("None", "", None, None, None)

\* line 153: the value yielded, self.pn[type_link].pop(adj_link.name, None)
remove_node_yield(n, item) ==
    IF item[3].name \in DOMAIN n.pn[item[1]]
    THEN n.pn[item[1]][item[3].name]
    ELSE NoneLink

NoGen == [state |-> "none", node |-> None, todo |-> {},
          yielded |-> {}, before |-> NewNetwork]

\* what the last call was, and whether it found the name it was given (or
\* generated) in the pool
NoCall == [op |-> "init", found |-> FALSE]

Call(op, found) == [op |-> op, found |-> found]

\* every creation adds one to one of the three counters, which start at 1
Created(n) == (n.cpt_node - 1) + (n.cpt_link - 1) + (n.cpt_AS - 1)

LiveNodes == DOMAIN net.pn.node

LiveLinks == UNION {{net.pn[t][k] : k \in DOMAIN net.pn[t]} : t \in link_type}

NodeCall ==
    /\ UNCHANGED calcVars
    /\ gen.state \in {"none", "exhausted"}
    /\ \E name \in NodeNameArgs \cup {None}, st \in SubtypeArgs :
         LET r == nf(net, st, name)
         IN  /\ Created(r.net) <= MaxCreated
             /\ net' = r.net
             /\ call' = Call("nf", r.net = net)
    /\ gen' = NoGen

LinkCall ==
    /\ UNCHANGED calcVars
    /\ gen.state \in {"none", "exhausted"}
    /\ \E name \in LinkNameArgs \cup {None}, t \in link_type, p \in ProtocolArgs,
          s \in LiveNodes, d \in LiveNodes :
         LET r == lf(net, p, t, name, s, d)
         IN  /\ Created(r.net) <= MaxCreated
             /\ net' = r.net
             /\ call' = Call("lf", r.net = net)
    /\ gen' = NoGen

ASCall ==
    /\ UNCHANGED calcVars
    /\ gen.state \in {"none", "exhausted"}
    /\ \E name \in ASNameArgs \cup {None}, t \in ASTypeArgs :
         LET r == AS_factory(net, name, t)
         IN  /\ Created(r.net) <= MaxCreated
             /\ net' = r.net
             /\ call' = Call("AS_factory", r.net = net)
    /\ gen' = NoGen

ObjectCall ==
    /\ UNCHANGED calcVars
    /\ gen.state \in {"none", "exhausted"}
    /\ \E t \in pool_type :
       \E name \in NodeNameArgs \cup LinkNameArgs \cup DOMAIN net.pn[t] :
         LET r == of(net, name, t)
         IN  /\ Created(r.net) <= MaxCreated
             /\ net' = r.net
             /\ call' = Call("of", r.net = net)
    /\ gen' = NoGen

RemoveLinkCall ==
    /\ UNCHANGED calcVars
    /\ gen.state \in {"none", "exhausted"}
    /\ \E link \in LiveLinks :
         /\ net' = remove_link(net, link)
         /\ call' = Call("remove_link", FALSE)
    /\ gen' = NoGen

EraseCall ==
    /\ UNCHANGED calcVars
    /\ gen.state \in {"none", "exhausted"}
    /\ net' = erase_network(net)
    /\ call' = Call("erase_network", FALSE)
    /\ gen' = NoGen

\* remove_node(node): builds the generator and runs none of the body
RemoveNodeCall ==
    /\ UNCHANGED calcVars
    /\ gen.state \in {"none", "exhausted"}
    /\ \E node \in LiveNodes :
         /\ gen' = [state |-> "created", node |-> node, todo |-> {},
                    yielded |-> {}, before |-> net]
         /\ call' = Call("remove_node", FALSE)
    /\ net' = net

\* next(generator)
GenNext ==
    /\ UNCHANGED calcVars
    /\ gen.state \in {"created", "suspended"}
    /\ LET e == IF gen.state = "created"
                THEN remove_node_enter(net, gen.node)
                ELSE [net |-> net, todo |-> gen.todo]
       IN  IF e.todo = {}
           THEN /\ net' = e.net
                /\ gen' = [gen EXCEPT !.state = "exhausted", !.todo = {}]
                /\ call' = Call("next", FALSE)
           ELSE \E item \in e.todo :
                  /\ net' = remove_node_body(e.net, gen.node, item)
                  /\ gen' = [gen EXCEPT !.state = "suspended",
                                        !.todo = e.todo \ {item},
                                        !.yielded = @ \cup
                                            {remove_node_yield(e.net, item)}]
                  /\ call' = Call("next", FALSE)

\* RFT_LB_builder's default K
DefaultK == 4

\* An IP address or mask "a.b.c.d" is modelled as <<a, b, c, d>>, the four
\* decimal fields of the string; a field nothing was assigned to is NoIP.
NoIP == <<0, 0, 0, 0>>

\* where calculate_all stands: the statement, and the indices of the
\* router, AS and traffic loops
At(at, r, a, t) == [at |-> at, r |-> r, a |-> a, t |-> t]

\* the locals of RFT_LB_builder and RFT_path_finder when neither runs
EmptyCost == [x \in {} |-> 0]

NoLB == [source |-> None, AS |-> 0, heap |-> {}, visited |-> {},
         visited_subnetworks |-> {}, SP_cost |-> EmptyCost]

NoPF == [traffic |-> None, dest_int |-> NoIP, heap |-> <<>>,
         path_node |-> {}, path_trunk |-> {}, pops |-> 0]

\* the store is created empty; calculate_all is not running
Init ==
    /\ net = NewNetwork
    /\ gen = NoGen
    /\ call = NoCall
    /\ cfg = [K |-> DefaultK, anyOrder |-> FALSE]
    /\ asys = <<>>
    /\ tk = EmptyPool
    /\ router = EmptyPool
    /\ pc = At("idle", 0, 0, 0)
    /\ lb = NoLB
    /\ pf = NoPF
    /\ tf = EmptyPool
    /\ log = <<>>

Next ==
    \/ NodeCall
    \/ LinkCall
    \/ ASCall
    \/ ObjectCall
    \/ RemoveLinkCall
    \/ EraseCall
    \/ RemoveNodeCall
    \/ GenNext

vars == <<net, gen, call, cfg, asys, tk, router, pc, lb, pf, tf, log>>

Spec == Init /\ [][Next]_vars

(***************************************************************************)
(* calculate_all.  The fields the pipeline reads and writes live on        *)
(* objects whose classes (objects.py, AS.py) are outside this source tree; *)
(* they are kept here in tk (trunks), router (routers), tf (traffic        *)
(* demands) and asys (ASes and their areas), with the shape spec.md        *)
(* section 3 gives them.                                                   *)
(***************************************************************************)
\* Bounds of the calculate_all model.
MaxCost == 3         \* costSD and costDS are drawn from 1..MaxCost
MaxPops == 8         \* heap pops one RFT_path_finder call is followed for

\* mask = "255.255.255.252"
Mask30 == <<255, 255, 255, 252>>

\* "Ethernet0/{index}" is modelled as index; NoInterface where none was set
NoInterface == -1

RECURSIVE BitAnd(_, _)
BitAnd(a, b) ==
    IF a = 0 \/ b = 0 THEN 0
    ELSE (a % 2) * (b % 2) + 2 * BitAnd(a \div 2, b \div 2)

\* network_functions.compute_network: the address ANDed with the mask
compute_network(ip, mask) ==
    <<BitAnd(ip[1], mask[1]), BitAnd(ip[2], mask[2]),
      BitAnd(ip[3], mask[3]), BitAnd(ip[4], mask[4])>>

\* A float that is a quotient of integers is modelled as a reduced
\* fraction <<numerator, denominator>>.
RECURSIVE Gcd(_, _)
Gcd(a, b) == IF b = 0 THEN a ELSE Gcd(b, a % b)

Frac(a, b) == LET g == Gcd(a, b) IN IF a = 0 THEN <<0, 1>> ELSE <<a \div g, b \div g>>

FracAdd(x, y) == Frac(x[1] * y[2] + y[1] * x[2], x[2] * y[2])

FracDiv_mutant_undivided(x, k) == x

FracDiv(x, k) == Frac(x[1], x[2] * k)

\* the sequences that enumerate the set S once each
Perms(S) == {f \in [1..Cardinality(S) -> S] : {f[i] : i \in DOMAIN f} = S}

\* the elements of S by increasing key[x]
RECURSIVE SortBy(_, _)
SortBy(S, key) ==
    IF S = {} THEN <<>>
    ELSE LET m == CHOOSE x \in S : \A y \in S : key[x] <= key[y]
         IN  <<m>> \o SortBy(S \ {m}, key)

\* d.values() of a pool whose names all came from the counter: a dict keeps
\* insertion order, and the counter numbers the names in that order
PoolOrder(pool) == SortBy(DOMAIN pool, [k \in DOMAIN pool |-> k[2]])

\* The order in which a set is iterated.  Python fixes none: with
\* cfg.anyOrder every order is taken, without it the order of creation.
Iterations(S, key) == IF cfg.anyOrder THEN Perms(S) ELSE {SortBy(S, key)}

\* objects.Trunk, the fields calculate_all uses
NewTrunk(costSD, costDS) ==
    [costSD |-> costSD, costDS |-> costDS,
     ipaddressS |-> NoIP, ipaddressD |-> NoIP,
     subnetmaskS |-> NoIP, subnetmaskD |-> NoIP,
     interfaceS |-> NoInterface, interfaceD |-> NoInterface,
     sntw |-> NoIP,
     trafficSD |-> <<0, 1>>, trafficDS |-> <<0, 1>>,
     wctrafficSD |-> <<0, 1>>, wctrafficDS |-> <<0, 1>>]

\* objects.Router: the loopback address and the routing table, a dict
\* from subnetwork to a set of routes
EmptyRT == [x \in {} |-> {}]

NewRouter == [ipaddress |-> NoIP, rt |-> EmptyRT]

\* Trunk.__call__(property, node): the S field if node is the source of
\* the trunk, the D field otherwise (for cost: costSD from the source)
TrunkCost(tkv, t, node) ==
    IF node = t.source THEN tkv[t.name].costSD ELSE tkv[t.name].costDS

TrunkIp(tkv, t, node) ==
    IF node = t.source THEN tkv[t.name].ipaddressS ELSE tkv[t.name].ipaddressD

TrunkMask(tkv, t, node) ==
    IF node = t.source THEN tkv[t.name].subnetmaskS ELSE tkv[t.name].subnetmaskD

TrunkInterface(tkv, t, node) ==
    IF node = t.source THEN tkv[t.name].interfaceS ELSE tkv[t.name].interfaceD

\* t.AS: the ASes trunk t is a member of (indices into asys)
TrunkAS(as, name) == {a \in 1..Len(as) : name \in as[a].trunks}

\* t.AS[AS]: the areas of AS number a that trunk t is a member of
TrunkAreas(as, name, a) ==
    {as[a].areas[r].name : r \in {q \in 1..Len(as[a].areas) : name \in as[a].areas[q].trunks}}

\* router.AS: the ASes node x is a member of, in the order of pnAS
NodeAS(as, x) == SelectSeq([a \in 1..Len(as) |-> a], LAMBDA a : x \in as[a].nodes)

\* Network.ftr("node", "router"): the routers, in the order of the pool
ftr_router(n) == SelectSeq(PoolOrder(n.pn.node), LAMBDA x : n.pn.node[x].subtype = "router")

(***************************************************************************)
(* Addressing: ip_allocation, subnetwork_allocation, interface_allocation. *)
(***************************************************************************)
\* the (AS, area) pairs in the order of the two enumerate() loops
RECURSIVE AreaSlotsFrom(_, _)
AreaSlotsFrom(as, a) ==
    IF a > Len(as) THEN <<>>
    ELSE [r \in 1..Len(as[a].areas) |-> <<a, r>>] \o AreaSlotsFrom(as, a + 1)

AreaSlots(as) == AreaSlotsFrom(as, 1)

\* lines 240-242 and 256-258: the four fields one trunk is given
ip_trunk(t, address, cpt_ip) ==
    [t EXCEPT !.subnetmaskS = Mask30, !.subnetmaskD = Mask30,
              !.ipaddressS = address \o <<cpt_ip>>,
              !.ipaddressD = address \o <<cpt_ip + 1>>]

ip_walk_mutant_step_one(tkv, address, cpt_ip, walk) ==
    [x \in DOMAIN tkv |->
        IF \E i \in DOMAIN walk : walk[i] = x
        THEN ip_trunk(tkv[x], address,
                      cpt_ip + (CHOOSE i \in DOMAIN walk : walk[i] = x) - 1)
        ELSE tkv[x]]

\* lines 238-245 and 254-259: the walk over the trunks of one block,
\* cpt_ip += 4 after each
RECURSIVE ip_walk(_, _, _, _)
ip_walk(tkv, address, cpt_ip, walk) ==
    IF walk = <<>> THEN tkv
    ELSE ip_walk([tkv EXCEPT ![Head(walk)] = ip_trunk(@, address, cpt_ip)],
                 address, cpt_ip + 4, Tail(walk))

\* lines 235-245: address = "10.{AS}.{area}.", the ids counted from 0
RECURSIVE ip_areas(_, _, _)
ip_areas(tkv, slots, walks) ==
    IF slots = <<>> THEN tkv
    ELSE LET s == Head(slots)
         IN  ip_areas(ip_walk(tkv, <<10, s[1] - 1, s[2] - 1>>, 1, walks[s]),
                      Tail(slots), walks)

\* lines 248-249: the loopback of the id-th router, id counted from 1
ip_loopbacks(n, rtr) ==
    LET routers == ftr_router(n)
    IN  [x \in DOMAIN rtr |->
            IF \E id \in DOMAIN routers : routers[id] = x
            THEN LET id == CHOOSE i \in DOMAIN routers : routers[i] = x
                 IN  [rtr[x] EXCEPT !.ipaddress = <<192, 168, id \div 255, id % 255>>]
            ELSE rtr[x]]

\* Network.ip_allocation; walks[s] is the order in which the set of trunks
\* of area s is iterated
ip_allocation(n, as, tkv, rtr, walks) ==
    LET t1 == ip_areas(tkv, AreaSlots(as), walks)
        no_AS == SelectSeq(PoolOrder(n.pn.trunk), LAMBDA t : TrunkAS(as, t) = {})
    IN  [tk |-> ip_walk(t1, <<172, 16, 0>>, 1, no_AS),
         router |-> ip_loopbacks(n, rtr)]

\* Network.subnetwork_allocation
subnetwork_allocation(n, tkv) ==
    [x \in DOMAIN tkv |->
        LET trunk == n.pn.trunk[x]
            src == trunk.source
        IN  [tkv[x] EXCEPT !.sntw = compute_network(TrunkIp(tkv, trunk, src),
                                                    TrunkMask(tkv, trunk, src))]]

\* lines 270-275: the walk over the trunks of one node
RECURSIVE interface_walk(_, _, _, _)
interface_walk(tkv, node, index_interface, walk) ==
    IF walk = <<>> THEN tkv
    ELSE LET adj_trunk == Head(walk)[2]
             t1 == IF adj_trunk.source = node
                   THEN [tkv EXCEPT ![adj_trunk.name].interfaceS = index_interface]
                   ELSE [tkv EXCEPT ![adj_trunk.name].interfaceD = index_interface]
         IN  interface_walk(t1, node, index_interface + 1, Tail(walk))

RECURSIVE interface_nodes(_, _, _)
interface_nodes(tkv, nodes, walks) ==
    IF nodes = <<>> THEN tkv
    ELSE interface_nodes(interface_walk(tkv, Head(nodes), 0, walks[Head(nodes)]),
                         Tail(nodes), walks)

\* Network.interface_allocation; walks[node] is the order in which
\* graph[node]["trunk"] is iterated
interface_allocation(n, tkv, walks) ==
    interface_nodes(tkv, PoolOrder(n.graph), walks)

\* the orders a set of trunk names, and a set of (neighbor, trunk) pairs,
\* can be iterated in
TrunkWalks(S) == Iterations(S, [k \in S |-> k[2]])

AdjWalks(S) == Iterations(S, [e \in S |-> e[2].name[2]])

AreaTrunks(as, s) == as[s[1]].areas[s[2]].trunks

AreaWalkChoices(as) ==
    LET slots == {AreaSlots(as)[i] : i \in DOMAIN AreaSlots(as)}
    IN  {w \in [slots -> UNION {TrunkWalks(AreaTrunks(as, s)) : s \in slots}] :
            \A s \in slots : w[s] \in TrunkWalks(AreaTrunks(as, s))}

NodeWalkChoices(n) ==
    {w \in [DOMAIN n.graph -> UNION {AdjWalks(n.graph[x].trunk) : x \in DOMAIN n.graph}] :
        \A x \in DOMAIN n.graph : w[x] \in AdjWalks(n.graph[x].trunk)}

(***************************************************************************)
(* The state calculate_all starts from: three routers, up to three trunks  *)
(* between them (one per pair), one traffic demand, one or two ASes, all   *)
(* created by the factories above, so that the names are the generated     *)
(* ones.  A trunk's membership is a set of (AS, area) pairs; the nodes of  *)
(* an area or AS are the endpoints of its trunks (spec.md section 3).      *)
(***************************************************************************)
N1 == AutoName("node", 1)

N2 == AutoName("node", 2)

N3 == AutoName("node", 3)

ThreeRouters ==
    nf(nf(nf(NewNetwork, "router", None).net, "router", None).net, "router", None).net

\* the (source, destination) of the trunks that may be created, in order
TrunkSlots == <<<<N1, N2>>, <<N1, N3>>, <<N2, N3>>>>

\* the traffic demands created: (source, destination, throughput)
TrafficArgs == <<<<N1, N3, 12>>>>

CostPairs == (1..MaxCost) \X (1..MaxCost)

\* the types of the ASes created, in order
ASConfigs == {<<"RIP">>, <<"OSPF">>, <<"RIP", "RIP">>}

\* the areas of an AS of the given type, in the order of AS.areas
AreaNames(type) == IF type = "OSPF" THEN <<"Backbone", "area1">> ELSE <<"Backbone">>

ConfigSlots(config) ==
    UNION {{<<a, r>> : r \in DOMAIN AreaNames(config[a])} : a \in DOMAIN config}

RECURSIVE lf_trunks(_, _, _, _)
lf_trunks(n, slots, i, present) ==
    IF i > Len(slots) THEN n
    ELSE lf_trunks(IF i \in present
                   THEN lf(n, "ethernet", "trunk", None,
                           slots[i][1], slots[i][2]).net
                   ELSE n,
                   slots, i + 1, present)

RECURSIVE lf_traffic(_, _, _)
lf_traffic(n, args, i) ==
    IF i > Len(args) THEN n
    ELSE lf_traffic(lf(n, "ethernet", "traffic", None,
                       args[i][1], args[i][2]).net, args, i + 1)

RECURSIVE AS_factories(_, _, _)
AS_factories(n, i, config) ==
    IF i > Len(config) THEN n
    ELSE AS_factories(AS_factory(n, None, config[i]).net, i + 1, config)

\* sc = [routers, slots, traffic]: the routers, the slots of the trunks and
\* the traffic demands of a scenario
Topology(sc, present, config) ==
    AS_factories(lf_traffic(lf_trunks(sc.routers, sc.slots, 1, present),
                            sc.traffic, 1),
                 1, config)

Triangle == [routers |-> ThreeRouters, slots |-> TrunkSlots, traffic |-> TrafficArgs]

\* the name lf generates for the trunk of slot i
SlotName(i, present) == AutoName("trunk", 1 + Cardinality({j \in present : j < i}))

Ends(n, T) == UNION {{n.pn.trunk[x].source, n.pn.trunk[x].destination} : x \in T}

\* AS.AutonomousSystem and its areas, as membership sets
ASMembers(n, config, present, member) ==
    [a \in DOMAIN config |->
        LET areas == [r \in DOMAIN AreaNames(config[a]) |->
                        LET T == {SlotName(i, present) :
                                    i \in {j \in present : <<a, r>> \in member[j]}}
                        IN  [name |-> AreaNames(config[a])[r],
                             trunks |-> T, nodes |-> Ends(n, T)]]
            T == UNION {areas[r].trunks : r \in DOMAIN areas}
        IN  [name |-> AutoName("AS", a), type |-> config[a],
             trunks |-> T, nodes |-> Ends(n, T), areas |-> areas]]

\* one step of calculate_all, as recorded in log: the function called, the
\* router or traffic demand it was called on, and the AS
Entry(ev, arg, a) == [ev |-> ev, arg |-> arg, AS |-> a]

Following_mutant_update_first(at) ==
    CASE at = "ip_allocation" -> "subnetwork_allocation"
      [] at = "subnetwork_allocation" -> "interface_allocation"
      [] at = "interface_allocation" -> "routers"
      [] at = "routers" -> "reset_traffic"
      [] at = "reset_traffic" -> "update_AS_topology"
      [] at = "update_AS_topology" -> "remove_failures"
      [] at = "remove_failures" -> "traffic"
      [] at = "traffic" -> "refresh_all_labels"
      [] OTHER -> "done"

\* lines 192-224: the statement of calculate_all that follows statement at
Following(at) ==
    CASE at = "ip_allocation" -> "subnetwork_allocation"
      [] at = "subnetwork_allocation" -> "interface_allocation"
      [] at = "interface_allocation" -> "routers"
      [] at = "routers" -> "reset_traffic"
      [] at = "reset_traffic" -> "remove_failures"
      [] at = "remove_failures" -> "update_AS_topology"
      [] at = "update_AS_topology" -> "traffic"
      [] at = "traffic" -> "refresh_all_labels"
      [] OTHER -> "done"

\* control reaches statement at: a for loop over nothing is passed over
RECURSIVE Enter(_, _, _)
Enter(n, as, at) ==
    IF \/ at = "routers" /\ ftr_router(n) = <<>>
       \/ at = "update_AS_topology" /\ as = <<>>
       \/ at = "traffic" /\ DOMAIN n.pn.traffic = {}
    THEN Enter(n, as, Following(at))
    ELSE At(at, IF at = "routers" THEN 1 ELSE 0,
                IF at = "update_AS_topology" THEN 1 ELSE 0,
                IF at = "traffic" THEN 1 ELSE 0)

Start(sc, present, cost, member, config, K, anyOrder) ==
    LET n == Topology(sc, present, config)
        slotOf(x) == CHOOSE i \in present : SlotName(i, present) = x
        demand(x) == CHOOSE i \in DOMAIN sc.traffic :
                        AutoName("traffic", Cardinality(present) + i) = x
    IN  /\ net = n
        /\ gen = NoGen
        /\ call = NoCall
        /\ cfg = [K |-> K, anyOrder |-> anyOrder]
        /\ asys = ASMembers(n, config, present, member)
        /\ tk = [x \in DOMAIN n.pn.trunk |->
                    NewTrunk(cost[slotOf(x)][1], cost[slotOf(x)][2])]
        /\ router = [x \in DOMAIN n.pn.node |-> NewRouter]
        /\ tf = [x \in DOMAIN n.pn.traffic |->
                    [throughput |-> <<sc.traffic[demand(x)][3], 1>>, path |-> {}]]
        /\ pc = At("ip_allocation", 0, 0, 0)
        /\ lb = NoLB
        /\ pf = NoPF
        /\ log = <<>>

\* every set iteration order, on every membership, with unit costs
InitAddr ==
    \E config \in ASConfigs, present \in SUBSET DOMAIN TrunkSlots :
    \E member \in [present -> SUBSET ConfigSlots(config)] :
        Start(Triangle, present, [i \in present |-> <<1, 1>>], member, config,
              DefaultK, TRUE)

IpAllocation ==
    /\ pc.at = "ip_allocation"
    /\ \E walks \in AreaWalkChoices(asys) :
         LET r == ip_allocation(net, asys, tk, router, walks)
         IN  /\ tk' = r.tk
             /\ router' = r.router
    /\ pc' = Enter(net, asys, Following(pc.at))
    /\ log' = Append(log, Entry("ip_allocation", None, None))
    /\ UNCHANGED <<net, gen, call, cfg, asys, lb, pf, tf>>

SubnetworkAllocation ==
    /\ pc.at = "subnetwork_allocation"
    /\ tk' = subnetwork_allocation(net, tk)
    /\ pc' = Enter(net, asys, Following(pc.at))
    /\ log' = Append(log, Entry("subnetwork_allocation", None, None))
    /\ UNCHANGED <<net, gen, call, cfg, asys, router, lb, pf, tf>>

InterfaceAllocation ==
    /\ pc.at = "interface_allocation"
    /\ \E walks \in NodeWalkChoices(net) :
         tk' = interface_allocation(net, tk, walks)
    /\ pc' = Enter(net, asys, Following(pc.at))
    /\ log' = Append(log, Entry("interface_allocation", None, None))
    /\ UNCHANGED <<net, gen, call, cfg, asys, router, lb, pf, tf>>

NextAddr ==
    \/ IpAllocation
    \/ SubnetworkAllocation
    \/ InterfaceAllocation

SpecAddr == InitAddr /\ [][NextAddr]_vars

(***************************************************************************)
(* The routing tables: static_RFT_builder and RFT_LB_builder.              *)
(***************************************************************************)
\* a route, the tuple (rtype, ex_ip, ex_int, cost, nh, ex_tk)
Route(rtype, ex_ip, ex_int, cost, nh, ex_tk) ==
    [rtype |-> rtype, ex_ip |-> ex_ip, ex_int |-> ex_int,
     cost |-> cost, nh |-> nh, ex_tk |-> ex_tk]

\* Network.static_RFT_builder, graph[source]["trunk"] iterated as walk
RECURSIVE static_RFT_builder(_, _, _, _)
static_RFT_builder(tkv, rt, source, walk) ==
    IF walk = <<>> THEN rt
    ELSE LET neighbor == Head(walk)[1]
             adj_trunk == Head(walk)[2]
             ex_ip == TrunkIp(tkv, adj_trunk, neighbor)
             ex_int == TrunkInterface(tkv, adj_trunk, source)
         IN  static_RFT_builder(
                 tkv,
                 DictSet(rt, tkv[adj_trunk.name].sntw,
                         {Route("C", ex_ip, ex_int, 0, neighbor, adj_trunk)}),
                 source, Tail(walk))

(***************************************************************************)
(* One turn of the loop of lines 862-904 works on b = [rt, SP_cost,        *)
(* visited_subnetworks, exc]: source.rt, the two locals, and whether an    *)
(* exception was raised.  `for route in source.rt[sntw]: break` takes an   *)
(* arbitrary element of the set, so a turn has a set of outcomes.          *)
(***************************************************************************)
ecmp_add_mutant_no_cap(b, K, sntw, route) ==
    IF sntw \notin DOMAIN b.SP_cost
    THEN [b EXCEPT !.exc = TRUE]
    ELSE IF route.cost = b.SP_cost[sntw]
         THEN [b EXCEPT !.rt[sntw] = @ \cup {route}]
         ELSE b

ecmp_add_mutant_any_cost(b, K, sntw, route) ==
    IF sntw \notin DOMAIN b.SP_cost
    THEN [b EXCEPT !.exc = TRUE]
    ELSE IF K > Cardinality(b.rt[sntw])
         THEN [b EXCEPT !.rt[sntw] = @ \cup {route}]
         ELSE b

\* lines 872-874 and 895-897; SP_cost[sntw] raises KeyError without the key
ecmp_add(b, K, sntw, route) ==
    IF sntw \notin DOMAIN b.SP_cost
    THEN [b EXCEPT !.exc = TRUE]
    ELSE IF route.cost = b.SP_cost[sntw] /\ K > Cardinality(b.rt[sntw])
         THEN [b EXCEPT !.rt[sntw] = @ \cup {route}]
         ELSE b

\* lines 868-870, 881-883 and 891-893: the route becomes the only one
set_route(b, sntw, route) ==
    [b EXCEPT !.SP_cost = DictSet(@, sntw, route.cost),
              !.rt = DictSet(@, sntw, {route})]

\* lines 866-874
RIP_candidate(b, K, sntw, route) ==
    IF sntw \notin DOMAIN b.rt
    THEN {set_route(b, sntw, route)}
    ELSE {ecmp_add(b, K, sntw, route)}

\* lines 880-897: the outcomes, each with whether `continue` was taken
OSPF_first(b, K, sntw, route) ==
    IF sntw \notin DOMAIN b.rt
    THEN {<<set_route(b, sntw, route), FALSE>>}
    ELSE {IF old.rtype = "O" /\ route.rtype = "IA"
          THEN <<b, TRUE>>
          ELSE IF old.rtype = "O IA" /\ route.rtype = "O"
               THEN <<set_route(b, sntw, route), FALSE>>
               ELSE LET b1 == ecmp_add(b, K, sntw, route)
                    IN  <<b1, b1.exc>> : old \in b.rt[sntw]}

OSPF_second_mutant_no_precedence(b, sntw, route) ==
    IF <<route.rtype, sntw>> \notin b.visited_subnetworks
    THEN [b EXCEPT !.visited_subnetworks = @ \cup {<<route.rtype, sntw>>},
                   !.rt = DictSet(@, sntw, {route})]
    ELSE b

\* lines 898-904
OSPF_second(b, sntw, route) ==
    IF <<route.rtype, sntw>> \notin b.visited_subnetworks
    THEN IF <<"O", sntw>> \in b.visited_subnetworks
         THEN b
         ELSE [b EXCEPT !.visited_subnetworks = @ \cup {<<route.rtype, sntw>>},
                        !.rt = DictSet(@, sntw, {route})]
    ELSE b

\* lines 876-904
OSPF_candidate(b, K, sntw, route) ==
    {IF o[2] THEN o[1] ELSE OSPF_second(o[1], sntw, route) :
        o \in OSPF_first(b, K, sntw, route)}

\* lines 858-904 for one (neighbor, trunk) of node, reached at distance
\* dist through exit trunk ex_tk
candidate(as, tkv, b, K, a, source, dist, node, ex_tk, e) ==
    LET neighbor == e[1]
        trunk == e[2]
        nh == IF ex_tk.source = source THEN ex_tk.destination ELSE ex_tk.source
        ex_ip == TrunkIp(tkv, ex_tk, nh)
        ex_int == TrunkInterface(tkv, ex_tk, source)
        curr_dist == dist + TrunkCost(tkv, trunk, node)
        sntw == tkv[trunk.name].sntw
    IN  IF b.exc \/ neighbor = source THEN {b}
        ELSE IF as[a].type = "RIP"
        THEN RIP_candidate(b, K, sntw, Route("R", ex_ip, ex_int, curr_dist, nh, ex_tk))
        ELSE IF as[a].type = "OSPF"
        THEN LET rtype == IF TrunkAreas(as, trunk.name, a)
                               \cap TrunkAreas(as, ex_tk.name, a) # {}
                          THEN "O" ELSE "O IA"
             IN  OSPF_candidate(b, K, sntw,
                                Route(rtype, ex_ip, ex_int, curr_dist, nh, ex_tk))
        ELSE {b}

\* lines 862-904: the loop over graph[node]["trunk"], iterated as walk
RECURSIVE candidates(_, _, _, _, _, _, _, _, _, _)
candidates(as, tkv, B, K, a, source, dist, node, ex_tk, walk) ==
    IF walk = <<>> THEN B
    ELSE candidates(as, tkv,
                    UNION {candidate(as, tkv, b, K, a, source, dist, node,
                                     ex_tk, Head(walk)) : b \in B},
                    K, a, source, dist, node, ex_tk, Tail(walk))

\* lines 905-919: the second loop, over the trunks not in path_trunk; the
\* turns write different keys of source.rt and push different heap items
expand(n, as, tkv, b, heap, a, source, dist, node, path_trunk) ==
    LET adj == {e \in n.graph[node].trunk :
                    \A i \in DOMAIN path_trunk : path_trunk[i] # e[2].name}
        connected(e) == Route("C", TrunkIp(tkv, e[2], e[1]),
                              TrunkInterface(tkv, e[2], source), dist, e[1], e[2])
        keys == {tkv[e[2].name].sntw : e \in adj}
        rt == IF node = source
              THEN [x \in DOMAIN b.rt \cup keys |->
                       IF x \in keys
                       THEN {connected(CHOOSE e \in adj : tkv[e[2].name].sntw = x)}
                       ELSE b.rt[x]]
              ELSE b.rt
        pushed == {<<dist + TrunkCost(tkv, e[2], node), e[1],
                     Append(path_trunk, e[2].name)>> :
                     e \in {f \in adj : /\ f[1] \in as[a].nodes
                                        /\ f[2].name \in as[a].trunks}}
    IN  [b |-> [b EXCEPT !.rt = rt], heap |-> heap \cup pushed]

\* lines 853-919: one turn of `while heap`, for the item popped
LB_turn(n, as, tkv, K, l, rt, item, walk) ==
    LET dist == item[1]
        node == item[2]
        path_trunk == item[3]
        heap == l.heap \ {item}
        b0 == [rt |-> rt, SP_cost |-> l.SP_cost,
               visited_subnetworks |-> l.visited_subnetworks, exc |-> FALSE]
        B == IF node # l.source
             THEN candidates(as, tkv, {b0}, K, l.AS, l.source, dist, node,
                             n.pn.trunk[path_trunk[1]], walk)
             ELSE {b0}
        done(b, h) == [lb |-> [l EXCEPT !.heap = h,
                                        !.visited = @ \cup {<<node, path_trunk>>},
                                        !.SP_cost = b.SP_cost,
                                        !.visited_subnetworks = b.visited_subnetworks],
                       rt |-> b.rt, exc |-> b.exc]
    IN  IF <<node, path_trunk>> \in l.visited
        THEN {done(b0, heap)}
        ELSE {IF b.exc THEN done(b, heap)
              ELSE LET x == expand(n, as, tkv, b, heap, l.AS, l.source, dist,
                                   node, path_trunk)
                   IN  done(x.b, x.heap) : b \in B}

\* heappop: an item of least dist; among those the comparison of the nodes
\* decides, which objects.py defines
heappop(heap) == {item \in heap : \A other \in heap : item[1] <= other[1]}

(***************************************************************************)
(* The steps of calculate_all after addressing.  The iteration order of a  *)
(* set is taken arbitrarily wherever the loop body reads what an earlier   *)
(* turn wrote.                                                             *)
(***************************************************************************)
\* the router the loop of line 197 is at, and its ASes
CurrentRouter == ftr_router(net)[pc.r]

CurrentAS == NodeAS(asys, CurrentRouter)

\* line 197: the next router, or the statement after the loop
NextRouter ==
    IF pc.r < Len(ftr_router(net))
    THEN At("routers", pc.r + 1, 0, 0)
    ELSE Enter(net, asys, Following("routers"))

\* line 199: the next AS of the router, or the next router
NextAS ==
    IF pc.a < Len(CurrentAS) THEN At("AS", pc.r, pc.a + 1, 0) ELSE NextRouter

\* line 198; reading graph[source] creates the key for a router without links
StaticRFT ==
    /\ pc.at = "routers"
    /\ net' = [net EXCEPT !.graph = GraphTouch(@, CurrentRouter)]
    /\ \E walk \in Perms(net'.graph[CurrentRouter].trunk) :
         router' = [router EXCEPT ![CurrentRouter].rt =
                        static_RFT_builder(tk, @, CurrentRouter, walk)]
    /\ pc' = IF CurrentAS # <<>> THEN At("AS", pc.r, 1, 0) ELSE NextRouter
    /\ log' = Append(log, Entry("static_RFT_builder", CurrentRouter, None))
    /\ UNCHANGED <<gen, call, cfg, asys, tk, lb, pf, tf>>

\* line 200 and lines 832-843: the call, up to `while heap`
LBCall ==
    /\ pc.at = "AS"
    /\ lb' = [source |-> CurrentRouter, AS |-> CurrentAS[pc.a],
              heap |-> {<<0, CurrentRouter, <<>>>>}, visited |-> {},
              visited_subnetworks |-> {}, SP_cost |-> EmptyCost]
    /\ pc' = [pc EXCEPT !.at = "LB"]
    /\ log' = Append(log, Entry("RFT_LB_builder", CurrentRouter,
                                asys[CurrentAS[pc.a]].name))
    /\ UNCHANGED <<net, gen, call, cfg, asys, tk, router, pf, tf>>

\* one turn of `while heap`; the call returns when the heap is empty
LBPop ==
    /\ pc.at = "LB"
    /\ \E item \in heappop(lb.heap) :
       \E walk \in Perms(net.graph[item[2]].trunk) :
       \E out \in LB_turn(net, asys, tk, cfg.K, lb, router[lb.source].rt, item, walk) :
         /\ router' = [router EXCEPT ![lb.source].rt = out.rt]
         /\ IF out.exc
            THEN /\ pc' = [pc EXCEPT !.at = "raised"]
                 /\ lb' = NoLB
            ELSE IF out.lb.heap = {}
                 THEN /\ pc' = NextAS
                      /\ lb' = NoLB
                 ELSE /\ pc' = pc
                      /\ lb' = out.lb
    /\ UNCHANGED <<net, gen, call, cfg, asys, tk, pf, tf, log>>

\* lines 203-205
ResetTraffic ==
    /\ pc.at = "reset_traffic"
    /\ tk' = [x \in DOMAIN tk |->
                [tk[x] EXCEPT !.trafficSD = <<0, 1>>, !.trafficDS = <<0, 1>>,
                              !.wctrafficSD = <<0, 1>>, !.wctrafficDS = <<0, 1>>]]
    /\ pc' = Enter(net, asys, Following(pc.at))
    /\ log' = Append(log, Entry("reset_traffic", None, None))
    /\ UNCHANGED <<net, gen, call, cfg, asys, router, lb, pf, tf>>

\* line 210: the scenario's failure list is no part of this state
RemoveFailures ==
    /\ pc.at = "remove_failures"
    /\ pc' = Enter(net, asys, Following(pc.at))
    /\ log' = Append(log, Entry("remove_failures", None, None))
    /\ UNCHANGED <<net, gen, call, cfg, asys, tk, router, lb, pf, tf>>

\* lines 212-215, one AS
UpdateASTopology ==
    /\ pc.at = "update_AS_topology"
    /\ pc' = IF pc.a < Len(asys)
             THEN [pc EXCEPT !.a = @ + 1]
             ELSE Enter(net, asys, Following(pc.at))
    /\ log' = Append(log, Entry("update_AS_topology", None, asys[pc.a].name))
    /\ UNCHANGED <<net, gen, call, cfg, asys, tk, router, lb, pf, tf>>

\* line 224: the labels are no part of this state
RefreshAllLabels ==
    /\ pc.at = "refresh_all_labels"
    /\ pc' = At("done", 0, 0, 0)
    /\ log' = Append(log, Entry("refresh_all_labels", None, None))
    /\ UNCHANGED <<net, gen, call, cfg, asys, tk, router, lb, pf, tf>>

(***************************************************************************)
(* RFT_path_finder.                                                        *)
(***************************************************************************)
\* lines 730-736: the loop over the routes of the current router, iterated
\* as walk; f = [tk, heap, path_node, path_trunk]
RECURSIVE forward(_, _, _, _)
forward(f, curr_router, share, walk) ==
    IF walk = <<>> THEN f
    ELSE LET route == Head(walk)
             trunk == route.ex_tk
             f1 == [tk |-> IF curr_router = trunk.source
                           THEN [f.tk EXCEPT ![trunk.name].trafficSD = FracAdd(@, share)]
                           ELSE [f.tk EXCEPT ![trunk.name].trafficDS = FracAdd(@, share)],
                    heap |-> Append(f.heap, <<route.nh, share>>),
                    path_node |-> f.path_node \cup {route.nh},
                    path_trunk |-> f.path_trunk \cup {trunk.name}]
         IN  forward(f1, curr_router, share, Tail(walk))

\* the traffic demand the loop of line 219 is at
CurrentTraffic == PoolOrder(net.pn.traffic)[pc.t]

\* lines 717-723: `for _, trunk in graph[destination]["trunk"]: break`
\* leaves trunk unbound when the destination has no trunk
PathFinderCall ==
    /\ pc.at = "traffic"
    /\ LET traffic == net.pn.traffic[CurrentTraffic]
           adj == net.graph[traffic.destination].trunk
       IN  IF adj = {}
           THEN /\ pc' = [pc EXCEPT !.at = "raised"]
                /\ pf' = NoPF
           ELSE /\ pc' = [pc EXCEPT !.at = "PF"]
                /\ \E e \in adj :
                     pf' = [traffic |-> CurrentTraffic,
                            dest_int |-> tk[e[2].name].sntw,
                            heap |-> <<<<traffic.source, tf[CurrentTraffic].throughput>>>>,
                            path_node |-> {}, path_trunk |-> {}, pops |-> 0]
    /\ log' = Append(log, Entry("RFT_path_finder", CurrentTraffic, None))
    /\ UNCHANGED <<net, gen, call, cfg, asys, tk, router, lb, tf>>

\* lines 724-736: one turn of `while heap`; curr_router.rt[dest_int] raises
\* KeyError without the key
PathFinderPop ==
    /\ pc.at = "PF"
    /\ pf.heap # <<>>
    /\ pf.pops < MaxPops
    /\ LET curr_router == pf.heap[Len(pf.heap)][1]
           share == pf.heap[Len(pf.heap)][2]
           heap == SubSeq(pf.heap, 1, Len(pf.heap) - 1)
       IN  IF curr_router = net.pn.traffic[pf.traffic].destination
           THEN /\ pf' = [pf EXCEPT !.heap = heap, !.pops = @ + 1]
                /\ UNCHANGED <<pc, tk>>
           ELSE IF pf.dest_int \notin DOMAIN router[curr_router].rt
           THEN /\ pc' = [pc EXCEPT !.at = "raised"]
                /\ pf' = NoPF
                /\ tk' = tk
           ELSE LET routes == router[curr_router].rt[pf.dest_int]
                IN  \E walk \in Perms(routes) :
                      LET f == forward([tk |-> tk, heap |-> heap,
                                        path_node |-> pf.path_node,
                                        path_trunk |-> pf.path_trunk],
                                       curr_router,
                                       FracDiv(share, Cardinality(routes)), walk)
                      IN  /\ tk' = f.tk
                          /\ pf' = [pf EXCEPT !.heap = f.heap,
                                              !.path_node = f.path_node,
                                              !.path_trunk = f.path_trunk,
                                              !.pops = @ + 1]
                          /\ pc' = pc
    /\ UNCHANGED <<net, gen, call, cfg, asys, router, lb, tf, log>>

\* lines 738-740 and 219-222: the return, and the next traffic demand
PathFinderReturn ==
    /\ pc.at = "PF"
    /\ pf.heap = <<>>
    /\ tf' = [tf EXCEPT ![pf.traffic].path = pf.path_trunk]
    /\ pf' = NoPF
    /\ pc' = IF pc.t < Cardinality(DOMAIN net.pn.traffic)
             THEN At("traffic", 0, 0, pc.t + 1)
             ELSE Enter(net, asys, Following("traffic"))
    /\ UNCHANGED <<net, gen, call, cfg, asys, tk, router, lb, log>>

(***************************************************************************)
(* One run of calculate_all.  The costs vary on a single RIP AS that holds *)
(* every trunk; the memberships and the cap K vary with unit costs.  K is  *)
(* the parameter of RFT_LB_builder: 4 when calculate_all calls it (line    *)
(* 200 passes none), 1 for the same sequence of calls with K given.        *)
(***************************************************************************)
InitCosts ==
    \E present \in SUBSET DOMAIN TrunkSlots :
    \E cost \in [present -> CostPairs] :
        Start(Triangle, present, cost, [i \in present |-> {<<1, 1>>}], <<"RIP">>,
              DefaultK, FALSE)

InitAreas ==
    \E config \in ASConfigs, present \in SUBSET DOMAIN TrunkSlots, K \in {1, DefaultK} :
    \E member \in [present -> SUBSET ConfigSlots(config)] :
        Start(Triangle, present, [i \in present |-> <<1, 1>>], member, config,
              K, FALSE)

InitCalc == InitCosts \/ InitAreas

NextCalc ==
    \/ IpAllocation
    \/ SubnetworkAllocation
    \/ InterfaceAllocation
    \/ StaticRFT
    \/ LBCall
    \/ LBPop
    \/ ResetTraffic
    \/ RemoveFailures
    \/ UpdateASTopology
    \/ PathFinderCall
    \/ PathFinderPop
    \/ PathFinderReturn
    \/ RefreshAllLabels

SpecCalc == InitCalc /\ [][NextCalc]_vars

(***************************************************************************)
(* One run of calculate_all on four routers: the square node1-node2-node4- *)
(* node3 (the diamond of scenario S2 when node1 is A and node4 is D) with  *)
(* the diagonal node2-node3, every trunk present or absent, in a single    *)
(* RIP AS, and one traffic demand node1 -> node4 of throughput 10          *)
(* (scenario S4).  Without node1-node3, node3-node4 and the diagonal it is *)
(* the chain of scenario S1.  The costs are 1, but for node1-node2, whose  *)
(* cost is 1 or 2: with 2, node2 and node4 are equally far from node1.     *)
(***************************************************************************)
N4 == AutoName("node", 4)

FourRouters == nf(ThreeRouters, "router", None).net

SquareSlots == <<<<N1, N2>>, <<N1, N3>>, <<N2, N4>>, <<N3, N4>>, <<N2, N3>>>>

SquareTraffic == <<<<N1, N4, 10>>>>

Square == [routers |-> FourRouters, slots |-> SquareSlots, traffic |-> SquareTraffic]

\* the costs (costSD, costDS) of the trunk node1-node2
SquareCosts == {<<1, 1>>, <<2, 2>>}

InitSquare ==
    \E present \in SUBSET DOMAIN SquareSlots, K \in {2, DefaultK}, c \in SquareCosts :
        Start(Square, present, [i \in present |-> IF i = 1 THEN c ELSE <<1, 1>>],
              [i \in present |-> {<<1, 1>>}], <<"RIP">>, K, FALSE)

SpecSquare == InitSquare /\ [][NextCalc]_vars

(***************************************************************************)
(* The path algorithms.  Each is a function of the graph, the fields of    *)
(* the trunks, and two orders that the code leaves to the objects: ord,    *)
(* the order in which the sets of links are iterated (a set that is not    *)
(* modified iterates the same way each time), given as a sequence of the   *)
(* trunk names, and nord, the order of the nodes, in which a set of nodes  *)
(* is iterated and by which heapq compares two tuples of equal distance.   *)
(***************************************************************************)
\* float("inf"): above every finite distance of the model
Inf == 1000

\* a + b on floats, either of which may be inf
Plus(a, b) == IF a >= Inf \/ b >= Inf THEN Inf ELSE a + b

IndexOf(seq, x) == CHOOSE i \in DOMAIN seq : seq[i] = x

\* self.graph[node]["trunk"], of a defaultdict
AdjSet(n, node) == IF node \in DOMAIN n.graph THEN n.graph[node].trunk ELSE {}

\* self.graph[node]["trunk"] in the order it is iterated
AdjOf(n, node, ord) ==
    SortBy(AdjSet(n, node), [e \in AdjSet(n, node) |-> IndexOf(ord, e[2].name)])

\* seq[::-1]
Reversed(seq) == [i \in DOMAIN seq |-> seq[Len(seq) + 1 - i]]

\* a < b on two lists of objects, compared by their places in order
RECURSIVE ListLess(_, _, _)
ListLess(a, b, order) ==
    IF b = <<>> THEN FALSE
    ELSE IF a = <<>> THEN TRUE
    ELSE IF Head(a) # Head(b)
         THEN IndexOf(order, Head(a)) < IndexOf(order, Head(b))
         ELSE ListLess(Tail(a), Tail(b), order)

\* x <= y on the tuples (dist, node, ...) of a heap; the later fields are
\* lists of nodes or of trunks
TupleLeq(x, y, ord, nord) ==
    \/ x[1] < y[1]
    \/ /\ x[1] = y[1]
       /\ \/ IndexOf(nord, x[2]) < IndexOf(nord, y[2])
          \/ /\ x[2] = y[2]
             /\ \/ Len(x) = 2
                \/ ListLess(x[3], y[3], IF Len(x) = 3 THEN ord ELSE nord)
                \/ x[3] = y[3] /\ (Len(x) = 3 \/ ~ListLess(y[4], x[4], ord))

\* heappop(heap)
heapmin(heap, ord, nord) == CHOOSE x \in heap : \A y \in heap : TupleLeq(x, y, ord, nord)

\* the result of a path function: whether it raised, whether it returned
\* None, and the lists returned; hangs when the function does not return
PathResult(raised, none, nodes, path) ==
    [raised |-> raised, none |-> none, nodes |-> nodes, path |-> path,
     hangs |-> FALSE]

\* a path function that does not return
Hanging == [PathResult(FALSE, FALSE, <<>>, <<>>) EXCEPT !.hangs = TRUE]

\* lines 338-341 and 646-651: the walk back from the target; prec_link has
\* no key None, so a node without predecessor on the way raises KeyError;
\* prec_node does not change during the walk, so a walk that comes back to
\* a node it has left never reaches source
RECURSIVE traceback(_, _, _, _, _, _)
traceback(prec_node, prec_link, source, curr, path_node, path_link) ==
    IF curr = source
    THEN PathResult(FALSE, FALSE, Reversed(path_node),
                    Reversed(SubSeq(path_link, 1, Len(path_link) - 1)))
    ELSE LET prec == prec_node[curr]
         IN  IF prec \notin DOMAIN prec_link
             THEN PathResult(TRUE, FALSE, <<>>, <<>>)
             ELSE IF \E i \in DOMAIN path_node : path_node[i] = prec
             THEN Hanging
             ELSE traceback(prec_node, prec_link, source, prec,
                            Append(path_node, prec),
                            Append(path_link, prec_link[prec]))

\* lines 325-336: the loop over the links of node; st = [dist, prec_node,
\* prec_link, heap, visited]
RECURSIVE dijkstra_relax(_, _, _, _, _, _, _)
dijkstra_relax(tkv, allowed_trunks, allowed_nodes, st, dist_node, node, adj) ==
    IF adj = <<>> THEN st
    ELSE LET neighbor == Head(adj)[1]
             adj_trunk == Head(adj)[2]
             dist_neighbor == Plus(dist_node, TrunkCost(tkv, adj_trunk, node))
             st1 == IF \/ neighbor \notin allowed_nodes
                       \/ adj_trunk.name \notin allowed_trunks
                       \/ ~(dist_neighbor < st.dist[neighbor])
                    THEN st
                    ELSE [st EXCEPT !.dist[neighbor] = dist_neighbor,
                                    !.prec_node[neighbor] = node,
                                    !.prec_link[neighbor] = adj_trunk.name,
                                    !.heap = @ \cup {<<dist_neighbor, neighbor>>}]
         IN  dijkstra_relax(tkv, allowed_trunks, allowed_nodes, st1, dist_node,
                            node, Tail(adj))

\* lines 321-336: while heap
RECURSIVE dijkstra_loop(_, _, _, _, _, _, _)
dijkstra_loop(n, tkv, allowed_trunks, allowed_nodes, st, ord, nord) ==
    IF st.heap = {} THEN st
    ELSE LET item == heapmin(st.heap, ord, nord)
             node == item[2]
             popped == [st EXCEPT !.heap = @ \ {item}]
         IN  dijkstra_loop(n, tkv, allowed_trunks, allowed_nodes,
                 IF node \in st.visited THEN popped
                 ELSE dijkstra_relax(tkv, allowed_trunks, allowed_nodes,
                                     [popped EXCEPT !.visited = @ \cup {node}],
                                     item[1], node, AdjOf(n, node, ord)),
                 ord, nord)

\* Network.dijkstra: [raised, none, dist, nodes, path, tree]
dijkstra(n, tkv, source, target, allowed_trunks, allowed_nodes, ord, nord) ==
    LET st == dijkstra_loop(n, tkv, allowed_trunks, allowed_nodes,
                  [dist |-> [i \in allowed_nodes |-> IF i = source THEN 0 ELSE Inf],
                   prec_node |-> [i \in allowed_nodes |-> None],
                   prec_link |-> [i \in allowed_nodes |-> None],
                   heap |-> {<<0, source>>}, visited |-> {}],
                  ord, nord)
        back == traceback(st.prec_node, st.prec_link, source, target,
                          <<target>>, <<st.prec_link[target]>>)
    IN  [raised |-> back.raised, none |-> FALSE, dist |-> st.dist,
         nodes |-> <<>>, path |-> back.path,
         tree |-> {st.prec_link[i] : i \in allowed_nodes} \ {None}]

\* lines 382-402 of A_star without path constraints (pc = [target]): the
\* tuples of the heap are (dist, node, nodes, trunks)
RECURSIVE A_star_loop(_, _, _, _, _, _, _, _, _)
A_star_loop(n, tkv, target, allowed_trunks, allowed_nodes, heap, visited, ord, nord) ==
    IF heap = {} THEN PathResult(FALSE, FALSE, <<>>, <<>>)
    ELSE LET item == heapmin(heap, ord, nord)
             node == item[2]
             pushed == {<<Plus(item[1], TrunkCost(tkv, e[2], node)), e[1],
                          Append(item[3], e[1]), Append(item[4], e[2].name)>> :
                          e \in {f \in AdjSet(n, node) :
                                    /\ f[1] \in allowed_nodes
                                    /\ f[2].name \in allowed_trunks}}
         IN  IF node \in visited
             THEN A_star_loop(n, tkv, target, allowed_trunks, allowed_nodes,
                              heap \ {item}, visited, ord, nord)
             ELSE IF node = target
             THEN PathResult(FALSE, FALSE, item[3], item[4])
             ELSE A_star_loop(n, tkv, target, allowed_trunks, allowed_nodes,
                              (heap \ {item}) \cup pushed, visited \cup {node},
                              ord, nord)

\* Network.A_star
A_star(n, tkv, source, target, allowed_trunks, allowed_nodes, ord, nord) ==
    A_star_loop(n, tkv, target, allowed_trunks, allowed_nodes,
                {<<0, source, <<source>>, <<>>>>}, {}, ord, nord)

\* lines 629-642: the loop over the links of node; st = [dist, prec_node,
\* prec_link]; from a node at distance inf nothing is less than dist[neighbor]
RECURSIVE bellman_ford_relax(_, _, _, _, _, _)
bellman_ford_relax(tkv, allowed_trunks, allowed_nodes, st, node, adj) ==
    IF adj = <<>> \/ st.dist[node] = Inf THEN st
    ELSE LET neighbor == Head(adj)[1]
             adj_trunk == Head(adj)[2]
             dist_neighbor == Plus(st.dist[node], TrunkCost(tkv, adj_trunk, node))
             st1 == IF \/ neighbor \notin allowed_nodes
                       \/ adj_trunk.name \notin allowed_trunks
                       \/ ~(dist_neighbor < st.dist[neighbor])
                    THEN st
                    ELSE [st EXCEPT !.dist[neighbor] = dist_neighbor,
                                    !.prec_node[neighbor] = node,
                                    !.prec_link[neighbor] = adj_trunk.name]
         IN  bellman_ford_relax(tkv, allowed_trunks, allowed_nodes, st1, node,
                                Tail(adj))

\* line 628: for node in allowed_nodes, iterated as nodes
RECURSIVE bellman_ford_nodes(_, _, _, _, _, _, _)
bellman_ford_nodes(n, tkv, allowed_trunks, allowed_nodes, st, nodes, ord) ==
    IF nodes = <<>> THEN st
    ELSE bellman_ford_nodes(n, tkv, allowed_trunks, allowed_nodes,
             bellman_ford_relax(tkv, allowed_trunks, allowed_nodes, st,
                                Head(nodes), AdjOf(n, Head(nodes), ord)),
             Tail(nodes), ord)

\* line 626: for i in range(n+2)
RECURSIVE bellman_ford_rounds(_, _, _, _, _, _, _, _)
bellman_ford_rounds(n, tkv, allowed_trunks, allowed_nodes, st, i, ord, nord) ==
    IF i = 0 THEN st
    ELSE bellman_ford_rounds(n, tkv, allowed_trunks, allowed_nodes,
             bellman_ford_nodes(n, tkv, allowed_trunks, allowed_nodes, st,
                 SelectSeq(nord, LAMBDA x : x \in allowed_nodes), ord),
             i - 1, ord, nord)

\* Network.bellman_ford
bellman_ford(n, tkv, source, target, allowed_trunks, allowed_nodes, ord, nord) ==
    LET st == bellman_ford_rounds(n, tkv, allowed_trunks, allowed_nodes,
                  [dist |-> [i \in allowed_nodes |-> IF i = source THEN 0 ELSE Inf],
                   prec_node |-> [i \in allowed_nodes |-> None],
                   prec_link |-> [i \in allowed_nodes |-> None]],
                  Cardinality(allowed_nodes) + 2, ord, nord)
    IN  IF st.dist[target] # Inf
        THEN traceback(st.prec_node, st.prec_link, source, target,
                       <<target>>, <<st.prec_link[target]>>)
        ELSE PathResult(FALSE, FALSE, <<>>, <<>>)

\* lines 581-596 of traffic_routing: the loop over the links of node, in
\* which dist is added to and never reset; a trunk that belongs to an AS
\* is passed over (no route link is created in these topologies)
RECURSIVE traffic_routing_push(_, _, _, _, _, _, _)
traffic_routing_push(as, tkv, heap, dist, node, path, adj) ==
    IF adj = <<>> THEN heap
    ELSE LET neighbor == Head(adj)[1]
             adj_link == Head(adj)[2]
             d == Plus(dist, TrunkCost(tkv, adj_link, node))
         IN  IF TrunkAS(as, adj_link.name) # {}
             THEN traffic_routing_push(as, tkv, heap, dist, node, path, Tail(adj))
             ELSE traffic_routing_push(as, tkv,
                      heap \cup {<<d, neighbor, Append(path, adj_link.name)>>},
                      d, node, path, Tail(adj))

\* lines 574-596: while heap; the function ends without a return statement
RECURSIVE traffic_routing_loop(_, _, _, _, _, _, _, _)
traffic_routing_loop(n, as, tkv, target, heap, visited, ord, nord) ==
    IF heap = {} THEN PathResult(FALSE, TRUE, <<>>, <<>>)
    ELSE LET item == heapmin(heap, ord, nord)
             node == item[2]
         IN  IF node \in visited
             THEN traffic_routing_loop(n, as, tkv, target, heap \ {item},
                                       visited, ord, nord)
             ELSE IF node = target
             THEN PathResult(FALSE, FALSE, <<>>, item[3])
             ELSE traffic_routing_loop(n, as, tkv, target,
                      traffic_routing_push(as, tkv, heap \ {item}, item[1], node,
                                           item[3], AdjOf(n, node, ord)),
                      visited \cup {node}, ord, nord)

\* Network.traffic_routing, on a traffic link from source to target
traffic_routing(n, as, tkv, source, target, ord, nord) ==
    traffic_routing_loop(n, as, tkv, target, {<<0, source, <<>>>>}, {}, ord, nord)

\* lines 662-670: W[id1][id2] before the triple loop
floyd_warshall_init(n, tkv, n1, n2, ord) ==
    LET found == SelectSeq(AdjOf(n, n1, ord), LAMBDA e : e[1] = n2)
    IN  IF n1 = n2 THEN 0
        ELSE IF found = <<>> THEN Inf
        ELSE tkv[found[1][2].name].costSD

\* lines 672-675: the turns k, k+1, ... of the outer loop; W[u][k] and
\* W[k][v] do not change during turn k while W[k][k] = 0
RECURSIVE floyd_warshall_loop(_, _, _)
floyd_warshall_loop(W, nodes, k) ==
    IF k > Len(nodes) THEN W
    ELSE floyd_warshall_loop(
             [u \in DOMAIN W |-> [v \in DOMAIN W |->
                 LET through == Plus(W[u][nodes[k]], W[nodes[k]][v])
                 IN  IF through < W[u][v] THEN through ELSE W[u][v]]],
             nodes, k + 1)

\* Network.floyd_warshall: whether it returned False, and all_length
floyd_warshall(n, tkv, ord) ==
    LET nodes == PoolOrder(n.pn.node)
        W == floyd_warshall_loop(
                 [n1 \in DOMAIN n.pn.node |-> [n2 \in DOMAIN n.pn.node |->
                     floyd_warshall_init(n, tkv, n1, n2, ord)]],
                 nodes, 1)
    IN  [negative |-> \E v \in DOMAIN W : W[v][v] < 0, all_length |-> W]

\* lines 984-986 and 1037-1039: the costs are kept in the flow fields
save_costs(tkv, a_t) ==
    [x \in DOMAIN tkv |->
        IF x \in a_t
        THEN [tkv[x] EXCEPT !.flowSD = tkv[x].costSD, !.flowDS = tkv[x].costDS]
        ELSE tkv[x]]

restore_costs_mutant_kept(tkv, a_t) == tkv

\* lines 1013-1015: the costs are taken back from the flow fields
restore_costs(tkv, a_t) ==
    [x \in DOMAIN tkv |->
        IF x \in a_t
        THEN [tkv[x] EXCEPT !.costSD = tkv[x].flowSD, !.costDS = tkv[x].flowDS]
        ELSE tkv[x]]

\* lines 998-1004: along first_path the cost in the direction of the path
\* becomes inf and the cost in the reverse direction -1
RECURSIVE bhandari_transform(_, _, _, _)
bhandari_transform(n, tkv, current_node, path) ==
    IF path = <<>> THEN tkv
    ELSE LET trunk == n.pn.trunk[Head(path)]
             sd == current_node = trunk.source
         IN  bhandari_transform(n,
                 [tkv EXCEPT ![trunk.name] =
                     IF sd THEN [@ EXCEPT !.costSD = Inf, !.costDS = -1]
                     ELSE [@ EXCEPT !.costDS = Inf, !.costSD = -1]],
                 IF sd THEN trunk.destination ELSE trunk.source, Tail(path))

SymDiff_mutant_union(first_path, second_path) ==
    {first_path[i] : i \in DOMAIN first_path} \cup {second_path[i] : i \in DOMAIN second_path}

\* set(first_path) ^ set(second_path)
SymDiff(first_path, second_path) ==
    LET A == {first_path[i] : i \in DOMAIN first_path}
        B == {second_path[i] : i \in DOMAIN second_path}
    IN  (A \ B) \cup (B \ A)

\* Network.bhandari: [raised, ret, tk], tk being the fields of the trunks
\* when it returns
bhandari(n, tkv, source, target, a_n, a_t, ord, nord) ==
    LET saved == save_costs(tkv, a_t)
        first == A_star(n, saved, source, target, a_t, a_n, ord, nord)
        changed == bhandari_transform(n, saved, source, first.path)
        second == bellman_ford(n, changed, source, target, a_t, a_n, ord, nord)
    IN  IF second.raised
        THEN [raised |-> TRUE, ret |-> {}, tk |-> changed]
        ELSE [raised |-> FALSE, ret |-> SymDiff(first.path, second.path),
              tk |-> restore_costs(changed, a_t)]

\* lines 1049-1054: the costs of the links of the tree, by the distances
\* from the source
suurbale_reweight(n, tkv, dist, tree) ==
    [x \in DOMAIN tkv |->
        IF x \in tree
        THEN LET src == n.pn.trunk[x].source
                 dest == n.pn.trunk[x].destination
             IN  [tkv[x] EXCEPT !.costSD = @ + dist[src] - dist[dest],
                                !.costDS = @ + dist[dest] - dist[src]]
        ELSE tkv[x]]

\* lines 1057-1061: along first_path the cost in the direction of the path
\* becomes inf
RECURSIVE suurbale_exclude(_, _, _, _)
suurbale_exclude(n, tkv, current_node, path) ==
    IF path = <<>> THEN tkv
    ELSE LET trunk == n.pn.trunk[Head(path)]
             sd == current_node = trunk.source
         IN  suurbale_exclude(n,
                 [tkv EXCEPT ![trunk.name] =
                     IF sd THEN [@ EXCEPT !.costSD = Inf]
                     ELSE [@ EXCEPT !.costDS = Inf]],
                 IF sd THEN trunk.destination ELSE trunk.source, Tail(path))

\* Network.suurbale: [raised, ret, tk]; the costs are not taken back from
\* the flow fields
suurbale(n, tkv, source, target, a_n, a_t, ord, nord) ==
    LET saved == save_costs(tkv, a_t)
        first == dijkstra(n, saved, source, target, a_t, a_n, ord, nord)
        changed == suurbale_exclude(n,
                       suurbale_reweight(n, saved, first.dist, first.tree),
                       source, first.path)
        second == A_star(n, changed, source, target, a_t, a_n, ord, nord)
    IN  IF first.raised
        THEN [raised |-> TRUE, ret |-> {}, tk |-> saved]
        ELSE [raised |-> FALSE, ret |-> SymDiff(first.path, second.path),
              tk |-> changed]

(***************************************************************************)
(* The flow algorithms.  The flows are the fields flowSD and flowDS of the *)
(* trunks; pushing g from one end of a trunk adds g to the flow from that  *)
(* end and takes g from the flow towards it.                               *)
(***************************************************************************)
Min(a, b) == IF a <= b THEN a ELSE b

\* getattr(adj_link, "capacity" + sd) with sd the side of node
TrunkCapacity(tkv, t, node) ==
    IF node = t.source THEN tkv[t.name].capacitySD ELSE tkv[t.name].capacityDS

\* getattr(adj_link, "flow" + sd) with sd the side of node
TrunkFlow(tkv, t, node) ==
    IF node = t.source THEN tkv[t.name].flowSD ELSE tkv[t.name].flowDS

push_flow_mutant_oneway(tkv, t, node, g) ==
    [tkv EXCEPT ![t.name] =
        IF node = t.source THEN [@ EXCEPT !.flowSD = @ + g]
        ELSE [@ EXCEPT !.flowDS = @ + g]]

\* flow + sd += g and flow + ds -= g, with sd the side of node
push_flow(tkv, t, node, g) ==
    [tkv EXCEPT ![t.name] =
        IF node = t.source
        THEN [@ EXCEPT !.flowSD = @ + g, !.flowDS = @ - g]
        ELSE [@ EXCEPT !.flowDS = @ + g, !.flowSD = @ - g]]

\* Network.reset_flow
reset_flow(tkv) == [x \in DOMAIN tkv |-> [tkv[x] EXCEPT !.flowSD = 0, !.flowDS = 0]]

\* the result of a flow function: whether it raised, whether it returned a
\* tuple, the value returned (the total of a tuple), and the flows left
FlowResult(raised, tuple, value, tkv) ==
    [raised |-> raised, tuple |-> tuple, value |-> value, tk |-> tkv]

\* sum(getattr(adj, attr[adj]) for _, adj in adjs): raised when a trunk has
\* no attribute of that name
RECURSIVE sum_flow(_, _, _)
sum_flow(tkv, adjs, attr) ==
    IF adjs = {} THEN [raised |-> FALSE, value |-> 0]
    ELSE LET e == CHOOSE x \in adjs : TRUE
             rest == sum_flow(tkv, adjs \ {e}, attr)
             name == attr[e]
         IN  IF name \notin DOMAIN tkv[e[2].name]
             THEN [raised |-> TRUE, value |-> 0]
             ELSE [raised |-> rest.raised, value |-> rest.value + tkv[e[2].name][name]]

\* Network.augment_ff and its loop over the links of curr_node: [flow, tk,
\* visit], flow = 0 standing for False
RECURSIVE augment_ff(_, _, _, _, _, _, _)
RECURSIVE augment_ff_links(_, _, _, _, _, _, _, _)
augment_ff_links(n, tkv, val, curr_node, target, visit, ord, adj) ==
    IF adj = <<>> THEN [flow |-> 0, tk |-> tkv, visit |-> visit]
    ELSE LET neighbor == Head(adj)[1]
             adj_link == Head(adj)[2]
             cap == TrunkCapacity(tkv, adj_link, curr_node)
             current_flow == TrunkFlow(tkv, adj_link, curr_node)
         IN  IF cap > current_flow /\ neighbor \notin visit
             THEN LET r == augment_ff(n, tkv, Min(val, cap - current_flow),
                                      neighbor, target, visit, ord)
                  IN  IF r.flow > 0
                      THEN [flow |-> r.flow,
                            tk |-> push_flow(r.tk, adj_link, curr_node, r.flow),
                            visit |-> r.visit]
                      ELSE augment_ff_links(n, r.tk, val, curr_node, target,
                                            r.visit, ord, Tail(adj))
             ELSE augment_ff_links(n, tkv, val, curr_node, target, visit, ord,
                                   Tail(adj))

augment_ff(n, tkv, val, curr_node, target, visit, ord) ==
    IF curr_node = target
    THEN [flow |-> val, tk |-> tkv, visit |-> visit \cup {curr_node}]
    ELSE augment_ff_links(n, tkv, val, curr_node, target, visit \cup {curr_node},
                          ord, AdjOf(n, curr_node, ord))

\* line 1106: while self.augment_ff(...): pass
RECURSIVE ford_fulkerson_loop(_, _, _, _, _)
ford_fulkerson_loop(n, tkv, s, d, ord) ==
    LET r == augment_ff(n, tkv, Inf, s, d, {}, ord)
    IN  IF r.flow # 0 THEN ford_fulkerson_loop(n, r.tk, s, d, ord) ELSE r.tk

\* line 1110: "flow" + (s==adj.source)*"SD" or "DS", in which + binds
\* tighter than or
ford_fulkerson_attr(s, adj) == IF s = adj.source THEN "flowSD" ELSE "flow"

\* Network.ford_fulkerson
ford_fulkerson(n, tkv, s, d, ord) ==
    LET final == ford_fulkerson_loop(n, reset_flow(tkv), s, d, ord)
        total == sum_flow(final, AdjSet(n, s),
                          [e \in AdjSet(n, s) |-> ford_fulkerson_attr(s, e[2])])
    IN  FlowResult(total.raised, FALSE, total.value, final)

\* lines 1125-1137 of augment_ek: the loop over the links of curr_node, left
\* when the destination is met; st = [res_cap, augmenting_path, Q]
RECURSIVE augment_ek_links(_, _, _, _, _, _)
augment_ek_links(n, tkv, st, curr_node, destination, adj) ==
    IF adj = <<>> THEN st
    ELSE LET neighbor == Head(adj)[1]
             adj_trunk == Head(adj)[2]
             residual == TrunkCapacity(tkv, adj_trunk, curr_node)
                         - TrunkFlow(tkv, adj_trunk, curr_node)
             st1 == [st EXCEPT !.augmenting_path[neighbor] = curr_node,
                               !.res_cap[neighbor] = Min(st.res_cap[curr_node], residual)]
         IN  IF residual # 0 /\ st.augmenting_path[neighbor] = None
             THEN IF neighbor = destination THEN st1
                  ELSE augment_ek_links(n, tkv, [st1 EXCEPT !.Q = Append(@, neighbor)],
                                        curr_node, destination, Tail(adj))
             ELSE augment_ek_links(n, tkv, st, curr_node, destination, Tail(adj))

\* lines 1123-1137: while Q
RECURSIVE augment_ek_loop(_, _, _, _, _)
augment_ek_loop(n, tkv, st, destination, ord) ==
    IF st.Q = <<>> THEN st
    ELSE augment_ek_loop(n, tkv,
             augment_ek_links(n, tkv, [st EXCEPT !.Q = Tail(@)], Head(st.Q),
                              destination, AdjOf(n, Head(st.Q), ord)),
             destination, ord)

\* Network.augment_ek: res_cap and augmenting_path have the keys of
\* self.graph, and res_cap[destination] raises KeyError without that key
augment_ek(n, tkv, source, destination, ord) ==
    LET keys == DOMAIN n.graph \cup {source}
        st == augment_ek_loop(n, tkv,
                  [res_cap |-> [x \in keys |-> IF x = source THEN Inf ELSE 0],
                   augmenting_path |-> [x \in keys |-> IF x = source THEN source ELSE None],
                   Q |-> <<source>>],
                  destination, ord)
    IN  IF destination \notin keys
        THEN [raised |-> TRUE, augmenting_path |-> <<>>, global_flow |-> 0]
        ELSE [raised |-> FALSE, augmenting_path |-> st.augmenting_path,
              global_flow |-> st.res_cap[destination]]

\* lines 1147-1157: the walk back from curr_node to the source; the trunk
\* between two nodes is unpacked from a filter, which raises ValueError
\* unless it yields exactly one
RECURSIVE edmonds_karp_walk(_, _, _, _, _, _)
edmonds_karp_walk(n, tkv, augmenting_path, global_flow, curr_node, source) ==
    IF curr_node = source THEN [raised |-> FALSE, tk |-> tkv]
    ELSE LET prec_node == augmenting_path[curr_node]
             found == {p \in AdjSet(n, curr_node) : p[1] = prec_node}
             trunk == (CHOOSE p \in found : TRUE)[2]
         IN  IF Cardinality(found) # 1 THEN [raised |-> TRUE, tk |-> tkv]
             ELSE edmonds_karp_walk(n, push_flow(tkv, trunk, prec_node, global_flow),
                                    augmenting_path, global_flow, prec_node, source)

\* lines 1142-1157: while True
RECURSIVE edmonds_karp_loop(_, _, _, _, _)
edmonds_karp_loop(n, tkv, source, destination, ord) ==
    LET a == augment_ek(n, tkv, source, destination, ord)
        w == edmonds_karp_walk(n, tkv, a.augmenting_path, a.global_flow,
                               destination, source)
    IN  IF a.raised THEN [raised |-> TRUE, tk |-> tkv]
        ELSE IF a.global_flow = 0 THEN [raised |-> FALSE, tk |-> tkv]
        ELSE IF w.raised THEN w
        ELSE edmonds_karp_loop(n, w.tk, source, destination, ord)

\* line 1159: "flow" + ((source==adj.source)*"SD" or "DS")
edmonds_karp_attr(source, adj) == IF source = adj.source THEN "flowSD" ELSE "flowDS"

\* Network.edmonds_karp
edmonds_karp(n, tkv, source, destination, ord) ==
    LET final == edmonds_karp_loop(n, reset_flow(tkv), source, destination, ord)
        total == sum_flow(final.tk, AdjSet(n, source),
                          [e \in AdjSet(n, source) |-> edmonds_karp_attr(source, e[2])])
    IN  FlowResult(final.raised \/ total.raised, FALSE, total.value, final.tk)

\* level[node] = None
NoLevel == -1

\* Network.augment_di and its loop over the links of curr_node: [val, tk,
\* level, limit]
RECURSIVE augment_di(_, _, _, _, _, _, _)
RECURSIVE augment_di_links(_, _, _, _, _, _, _, _, _)
augment_di_links(n, tkv, level, curr_node, dest, limit, val, ord, adj) ==
    IF adj = <<>>
    THEN [val |-> val, tk |-> tkv,
          level |-> IF val = 0 THEN [level EXCEPT ![curr_node] = NoLevel] ELSE level]
    ELSE LET neighbor == Head(adj)[1]
             adj_trunk == Head(adj)[2]
             residual == TrunkCapacity(tkv, adj_trunk, curr_node)
                         - TrunkFlow(tkv, adj_trunk, curr_node)
         IN  IF level[neighbor] = level[curr_node] + 1 /\ residual > 0
             THEN LET r == augment_di(n, tkv, level, neighbor, dest,
                                      Min(limit, residual), ord)
                  IN  augment_di_links(n, push_flow(r.tk, adj_trunk, curr_node, r.val),
                                       r.level, curr_node, dest, limit - r.val,
                                       val + r.val, ord, Tail(adj))
             ELSE augment_di_links(n, tkv, level, curr_node, dest, limit, val,
                                   ord, Tail(adj))

augment_di(n, tkv, level, curr_node, dest, limit, ord) ==
    IF limit <= 0 THEN [val |-> 0, tk |-> tkv, level |-> level]
    ELSE IF curr_node = dest THEN [val |-> limit, tk |-> tkv, level |-> level]
    ELSE augment_di_links(n, tkv, level, curr_node, dest, limit, 0, ord,
                          AdjOf(n, curr_node, ord))

\* lines 1198-1205 of dinic: the loop over the links of curr_node; st =
\* [level, Q, flow], flow being the local variable that line 1202 assigns
RECURSIVE dinic_links(_, _, _, _)
dinic_links(tkv, st, curr_node, adj) ==
    IF adj = <<>> THEN st
    ELSE LET neighbor == Head(adj)[1]
             adj_trunk == Head(adj)[2]
             cap == TrunkCapacity(tkv, adj_trunk, curr_node)
             flow == TrunkFlow(tkv, adj_trunk, curr_node)
             read == [st EXCEPT !.flow = <<flow>>]
         IN  dinic_links(tkv,
                 IF st.level[neighbor] = NoLevel /\ cap > flow
                 THEN [read EXCEPT !.level[neighbor] = st.level[curr_node] + 1,
                                   !.Q = Append(@, neighbor)]
                 ELSE read,
                 curr_node, Tail(adj))

\* lines 1196-1205: while Q, a queue filled at the left and emptied at the
\* right
RECURSIVE dinic_levels(_, _, _, _)
dinic_levels(n, tkv, st, ord) ==
    IF st.Q = <<>> THEN st
    ELSE dinic_levels(n,tkv,
             dinic_links(tkv, [st EXCEPT !.Q = Tail(@)], Head(st.Q),
                         AdjOf(n, Head(st.Q), ord)),
             ord)

\* lines 1192-1214: while True; flow is <<>> as long as the local variable
\* is not bound, and `return flow, total` then raises UnboundLocalError
RECURSIVE dinic_loop(_, _, _, _, _, _, _)
dinic_loop(n, tkv, source, destination, total, flow, ord) ==
    LET st == dinic_levels(n, tkv,
                  [level |-> [x \in DOMAIN n.pn.node |-> IF x = source THEN 0 ELSE NoLevel],
                   Q |-> <<source>>, flow |-> flow],
                  ord)
        limit == sum_flow(tkv, AdjSet(n, source),
                     [e \in AdjSet(n, source) |->
                         IF source = e[2].source THEN "capacitySD" ELSE "capacityDS"]).value
        r == augment_di(n, tkv, st.level, source, destination, limit, ord)
    IN  IF st.level[destination] = NoLevel
        THEN [raised |-> st.flow = <<>>, flow |-> st.flow, total |-> total, tk |-> tkv]
        ELSE dinic_loop(n, r.tk, source, destination, total + r.val, st.flow, ord)

\* Network.dinic, which returns the pair (flow, total)
dinic(n, tkv, source, destination, ord) ==
    LET r == dinic_loop(n, reset_flow(tkv), source, destination, 0, <<>>, ord)
    IN  FlowResult(r.raised, TRUE, r.total, r.tk)

(***************************************************************************)
(* A_star_shortest_pair.  The key of visited is the pair of the node and   *)
(* of the whole path, so no tuple popped is ever skipped, and the heap     *)
(* holds walks of any length.                                              *)
(***************************************************************************)
\* the sum over the trunks of T of the cost of the dearer direction
RECURSIVE dearest(_, _)
dearest(tkv, T) ==
    IF T = {} THEN 0
    ELSE LET t == CHOOSE x \in T : TRUE
         IN  Plus(IF tkv[t].costSD > tkv[t].costDS THEN tkv[t].costSD ELSE tkv[t].costDS,
                  dearest(tkv, T \ {t}))

pair_allowed_mutant_all(a_t, e_o) == a_t

\* line 958: a_t - e_o
pair_allowed(a_t, e_o) == a_t \ e_o

\* the result of A_star_shortest_pair: the lists returned, or hangs when
\* the loop does not end
PairResult(hangs, path) == [hangs |-> hangs, nodes |-> <<>>, path |-> path]

\* lines 946-962: while heap.  The tuples are popped by increasing dist.  A
\* walk that is returned uses no trunk after its last visit of target that
\* it used before, and the cheapest such walk uses no trunk twice, so it
\* costs at most dearest(tkv, a_t); a tuple popped with a greater dist shows
\* that none will be returned, and its walk takes a trunk twice between two
\* visits of target, so that the heap receives longer walks for ever.
RECURSIVE A_star_shortest_pair_loop(_, _, _, _, _, _, _, _, _)
A_star_shortest_pair_loop(n, tkv, source, target, a_n, a_t, heap, ord, nord) ==
    IF heap = {} THEN PairResult(FALSE, <<>>)
    ELSE LET item == CHOOSE x \in heap : \A y \in heap :
                         TupleLeq(<<x[1], x[2], x[3]>>, <<y[1], y[2], y[3]>>, ord, nord)
             node == item[2]
             e_o == IF node = target THEN {item[3][i] : i \in DOMAIN item[3]}
                    ELSE item[4]
             pushed == {<<Plus(item[1], TrunkCost(tkv, e[2], node)), e[1],
                          Append(item[3], e[2].name), e_o>> :
                          e \in {f \in AdjSet(n, node) :
                                    /\ f[1] \in a_n
                                    /\ f[2].name \in pair_allowed(a_t, e_o)}}
         IN  IF item[1] > dearest(tkv, a_t) THEN PairResult(TRUE, <<>>)
             ELSE IF node = source /\ e_o # {} THEN PairResult(FALSE, item[3])
             ELSE A_star_shortest_pair_loop(n, tkv, source, target, a_n, a_t,
                                            (heap \ {item}) \cup pushed, ord, nord)

\* Network.A_star_shortest_pair
A_star_shortest_pair(n, tkv, source, target, a_n, a_t, ord, nord) ==
    A_star_shortest_pair_loop(n, tkv, source, target, a_n, a_t,
                              {<<0, source, <<>>, {}>>}, ord, nord)

(***************************************************************************)
(* Calls of the algorithms on a topology of four routers without AS: the   *)
(* square node1-node2-node4-node3 with the diagonal node2-node3 (scenarios *)
(* S5 and S6) and a second trunk between node1 and node2, created from     *)
(* node2, every trunk present or absent.  One algorithm is called; the     *)
(* variable call holds the call, its arguments and what it returned.       *)
(***************************************************************************)
AlgoSlots == SquareSlots \o <<<<N2, N1>>>>

\* the costs (costSD, costDS) of the trunks, by slot: all 1; the diagonal
\* at 3 (scenario S5); node1-node2 dearer from node2 than from node1;
\* node1-node3 and node2-node4 at 3, which makes the path of three trunks
\* through the diagonal the shortest from node1 to node4
AlgoCosts == {[i \in DOMAIN AlgoSlots |-> <<1, 1>>],
              [i \in DOMAIN AlgoSlots |-> IF i = 5 THEN <<3, 3>> ELSE <<1, 1>>],
              [i \in DOMAIN AlgoSlots |-> IF i = 1 THEN <<1, 2>> ELSE <<1, 1>>],
              [i \in DOMAIN AlgoSlots |-> IF i \in {2, 3} THEN <<3, 3>> ELSE <<1, 1>>]}

\* the capacities (capacitySD = capacityDS) of the trunks, by slot: those of
\* scenario S6 with s = node1, a = node2, b = node3, t = node4
AlgoCapacities == <<10, 1, 1, 10, 10, 1>>

\* objects.Trunk: the fields the algorithms read and write
AlgoTrunk(cost, capacity) ==
    [costSD |-> cost[1], costDS |-> cost[2],
     capacitySD |-> capacity, capacityDS |-> capacity,
     flowSD |-> 0, flowDS |-> 0]

AlgoCall(op, args, ret) == [op |-> op, args |-> args, ret |-> ret]

InitAlgo ==
    \E present \in SUBSET DOMAIN AlgoSlots, cost \in AlgoCosts :
        LET n == lf_trunks(FourRouters, AlgoSlots, 1, present)
            slotOf(x) == CHOOSE i \in present : SlotName(i, present) = x
        IN  /\ net = n
            /\ gen = NoGen
            /\ call = AlgoCall("init", <<>>, None)
            /\ cfg = [K |-> DefaultK, anyOrder |-> TRUE]
            /\ asys = <<>>
            /\ tk = [x \in DOMAIN n.pn.trunk |->
                        AlgoTrunk(cost[slotOf(x)], AlgoCapacities[slotOf(x)])]
            /\ router = [x \in DOMAIN n.pn.node |-> NewRouter]
            /\ tf = EmptyPool
            /\ pc = At("idle", 0, 0, 0)
            /\ lb = NoLB
            /\ pf = NoPF
            /\ log = <<>>

MaxShuffled == 3

\* the orders in which a set of trunks may be iterated: every order of a
\* set of at most MaxShuffled, the order of creation and its reverse of a
\* larger
Orders(S) ==
    LET created == SortBy(S, [k \in S |-> k[2]])
    IN  IF Cardinality(S) <= MaxShuffled THEN Perms(S)
        ELSE {created, Reversed(created)}

TrunkOrders == Orders(DOMAIN net.pn.trunk)

\* the orders of the nodes: that of their creation and its reverse
NodeOrders ==
    LET created == SortBy(DOMAIN net.pn.node, [k \in DOMAIN net.pn.node |-> k[2]])
    IN  {created, Reversed(created)}

\* set(self.pn["trunk"].values()) and set(self.pn["node"].values())
AllTrunks == DOMAIN net.pn.trunk

AllNodes == DOMAIN net.pn.node

\* the pairs (source, target) of a call
AlgoPairs == {p \in AllNodes \X AllNodes : p[1] # p[2]}

\* what a call of an algorithm leaves unchanged but for call and tk
AlgoFrame == UNCHANGED <<net, gen, cfg, asys, router, pc, lb, pf, tf, log>>

DijkstraCall ==
    /\ call.op = "init"
    /\ \E p \in AlgoPairs, ord \in TrunkOrders, nord \in NodeOrders :
         call' = AlgoCall("dijkstra", p,
                          dijkstra(net, tk, p[1], p[2], AllTrunks, AllNodes, ord, nord))
    /\ tk' = tk
    /\ AlgoFrame

AStarCall ==
    /\ call.op = "init"
    /\ \E p \in AlgoPairs, ord \in TrunkOrders, nord \in NodeOrders :
         call' = AlgoCall("A_star", p,
                          A_star(net, tk, p[1], p[2], AllTrunks, AllNodes, ord, nord))
    /\ tk' = tk
    /\ AlgoFrame

BellmanFordCall ==
    /\ call.op = "init"
    /\ \E p \in AlgoPairs, ord \in TrunkOrders, nord \in NodeOrders :
         call' = AlgoCall("bellman_ford", p,
                          bellman_ford(net, tk, p[1], p[2], AllTrunks, AllNodes, ord, nord))
    /\ tk' = tk
    /\ AlgoFrame

TrafficRoutingCall ==
    /\ call.op = "init"
    /\ \E p \in AlgoPairs, ord \in TrunkOrders, nord \in NodeOrders :
         call' = AlgoCall("traffic_routing", p,
                          traffic_routing(net, asys, tk, p[1], p[2], ord, nord))
    /\ tk' = tk
    /\ AlgoFrame

FloydWarshallCall ==
    /\ call.op = "init"
    /\ \E ord \in TrunkOrders :
         call' = AlgoCall("floyd_warshall", <<>>, floyd_warshall(net, tk, ord))
    /\ tk' = tk
    /\ AlgoFrame

BhandariCall ==
    /\ call.op = "init"
    /\ \E p \in AlgoPairs, ord \in TrunkOrders, nord \in NodeOrders :
         LET r == bhandari(net, tk, p[1], p[2], AllNodes, AllTrunks, ord, nord)
         IN  /\ call' = AlgoCall("bhandari", p, [raised |-> r.raised, ret |-> r.ret])
             /\ tk' = r.tk
    /\ AlgoFrame

SuurbaleCall ==
    /\ call.op = "init"
    /\ \E p \in AlgoPairs, ord \in TrunkOrders, nord \in NodeOrders :
         LET r == suurbale(net, tk, p[1], p[2], AllNodes, AllTrunks, ord, nord)
         IN  /\ call' = AlgoCall("suurbale", p, [raised |-> r.raised, ret |-> r.ret])
             /\ tk' = r.tk
    /\ AlgoFrame

NextAlgo ==
    \/ DijkstraCall
    \/ AStarCall
    \/ BellmanFordCall
    \/ TrafficRoutingCall
    \/ FloydWarshallCall
    \/ BhandariCall
    \/ SuurbaleCall

SpecAlgo == InitAlgo /\ [][NextAlgo]_vars

(***************************************************************************)
(* Calls of the flow algorithms on the same four routers: the graph of     *)
(* scenario S6 with s = node1, a = node2, b = node3, t = node4 and a       *)
(* second trunk between node1 and node2, every trunk present or absent,    *)
(* the flows either 0 or left over from an earlier computation.            *)
(***************************************************************************)
\* the flows (flowSD, flowDS) that the trunks hold before the call
StaleFlows == {<<0, 0>>, <<1, -1>>}

InitFlow ==
    \E present \in SUBSET DOMAIN AlgoSlots, stale \in StaleFlows :
        LET n == lf_trunks(FourRouters, AlgoSlots, 1, present)
            slotOf(x) == CHOOSE i \in present : SlotName(i, present) = x
        IN  /\ net = n
            /\ gen = NoGen
            /\ call = AlgoCall("init", <<>>, None)
            /\ cfg = [K |-> DefaultK, anyOrder |-> TRUE]
            /\ asys = <<>>
            /\ tk = [x \in DOMAIN n.pn.trunk |->
                        [AlgoTrunk(<<1, 1>>, AlgoCapacities[slotOf(x)])
                            EXCEPT !.flowSD = stale[1], !.flowDS = stale[2]]]
            /\ router = [x \in DOMAIN n.pn.node |-> NewRouter]
            /\ tf = EmptyPool
            /\ pc = At("idle", 0, 0, 0)
            /\ lb = NoLB
            /\ pf = NoPF
            /\ log = <<>>

\* a call of a flow function: what it returned, and the flows it left
FlowCall(op, p, r) ==
    /\ call' = AlgoCall(op, p, [raised |-> r.raised, tuple |-> r.tuple, value |-> r.value])
    /\ tk' = r.tk

FordFulkersonCall ==
    /\ call.op = "init"
    /\ \E p \in AlgoPairs, ord \in TrunkOrders :
         FlowCall("ford_fulkerson", p, ford_fulkerson(net, tk, p[1], p[2], ord))
    /\ AlgoFrame

EdmondsKarpCall ==
    /\ call.op = "init"
    /\ \E p \in AlgoPairs, ord \in TrunkOrders :
         FlowCall("edmonds_karp", p, edmonds_karp(net, tk, p[1], p[2], ord))
    /\ AlgoFrame

DinicCall ==
    /\ call.op = "init"
    /\ \E p \in AlgoPairs, ord \in TrunkOrders :
         FlowCall("dinic", p, dinic(net, tk, p[1], p[2], ord))
    /\ AlgoFrame

NextFlow ==
    \/ FordFulkersonCall
    \/ EdmondsKarpCall
    \/ DinicCall

SpecFlow == InitFlow /\ [][NextFlow]_vars

(***************************************************************************)
(* Calls of bhandari and suurbale alone, on the topologies of SpecAlgo.    *)
(***************************************************************************)
NextPair ==
    \/ BhandariCall
    \/ SuurbaleCall

SpecPair == InitAlgo /\ [][NextPair]_vars

(***************************************************************************)
(* The routing functions of the protocols.  OSPF_AS and ISIS_AS are the    *)
(* records of an AS: its trunks, its nodes and its areas, each area with   *)
(* its name, its trunks and its nodes.                                     *)
(***************************************************************************)
\* node.AS[AS]: the names of the areas of the AS that node x is a member of
NodeAreas(AS, x) ==
    {AS.areas[r].name : r \in {q \in DOMAIN AS.areas : x \in AS.areas[q].nodes}}

\* AS.areas[name]
AreaNamed(AS, name) ==
    AS.areas[CHOOSE r \in DOMAIN AS.areas : AS.areas[r].name = name]

\* AS.border_routers: the nodes that are members of two areas or more
border_routers(AS) == {x \in AS.nodes : Cardinality(NodeAreas(AS, x)) >= 2}

\* x <= y on the tuples (dist, node, path, step) of OSPF_routing's heap
OSPFTupleLeq(x, y, ord, nord) ==
    \/ x[1] < y[1]
    \/ /\ x[1] = y[1]
       /\ \/ IndexOf(nord, x[2]) < IndexOf(nord, y[2])
          \/ /\ x[2] = y[2]
             /\ \/ ListLess(x[3], y[3], ord)
                \/ x[3] = y[3] /\ x[4] <= y[4]

OSPF_trunks_mutant_any(OSPF_AS, areas, step) == OSPF_AS.trunks

\* lines 544-552: the trunks that may be used at a step: those of the source
\* area at step 0, of the backbone at step 1, of the target area at step 2
OSPF_trunks(OSPF_AS, areas, step) ==
    AreaNamed(OSPF_AS, CASE step = 0 -> areas.source
                         [] step = 1 -> "Backbone"
                         [] OTHER -> areas.target).trunks

\* lines 525-559: while heap; areas = [source, target], the names of
\* source_area and target_area
RECURSIVE OSPF_routing_loop(_, _, _, _, _, _, _, _, _, _, _)
OSPF_routing_loop(n, tkv, target, OSPF_AS, areas, a_n, a_t, heap, visited, ord, nord) ==
    IF heap = {} THEN PathResult(FALSE, FALSE, <<>>, <<>>)
    ELSE LET item == CHOOSE x \in heap : \A y \in heap : OSPFTupleLeq(x, y, ord, nord)
             node == item[2]
             step1 == IF item[4] = 0 /\ "Backbone" \in NodeAreas(OSPF_AS, node)
                      THEN 1 ELSE item[4]
             step == IF step1 = 1 /\ areas.target \in NodeAreas(OSPF_AS, node)
                     THEN 2 ELSE step1
             pushed == {<<Plus(item[1], TrunkCost(tkv, e[2], node)), e[1],
                          Append(item[3], e[2].name), step>> :
                          e \in {f \in AdjSet(n, node) :
                                    /\ f[1] \in a_n
                                    /\ f[2].name \in a_t
                                    /\ f[2].name \in OSPF_trunks(OSPF_AS, areas, step)}}
         IN  IF <<node, item[4]>> \in visited
             THEN OSPF_routing_loop(n, tkv, target, OSPF_AS, areas, a_n, a_t,
                                    heap \ {item}, visited, ord, nord)
             ELSE IF node = target
             THEN PathResult(FALSE, FALSE, <<>>, item[3])
             ELSE OSPF_routing_loop(n, tkv, target, OSPF_AS, areas, a_n, a_t,
                                    (heap \ {item}) \cup pushed,
                                    visited \cup {<<node, item[4]>>}, ord, nord)

\* the name of no area
NoArea == ""

\* lines 500-510: the area of an end of the path: the backbone when the
\* node is in several areas, else its only area; the unpacking of a set
\* that has no element raises ValueError
OSPF_area(OSPF_AS, x) ==
    IF Cardinality(NodeAreas(OSPF_AS, x)) > 1 THEN "Backbone"
    ELSE IF NodeAreas(OSPF_AS, x) = {} THEN NoArea
    ELSE CHOOSE r \in NodeAreas(OSPF_AS, x) : TRUE

\* Network.OSPF_routing
OSPF_routing(n, tkv, source, target, OSPF_AS, a_n, a_t, ord, nord) ==
    LET source_area == OSPF_area(OSPF_AS, source)
        target_area == OSPF_area(OSPF_AS, target)
        step == IF source_area = target_area THEN 2
                ELSE IF source_area = "Backbone" THEN 1 ELSE 0
    IN  IF source_area = NoArea \/ target_area = NoArea
        THEN PathResult(TRUE, FALSE, <<>>, <<>>)
        ELSE OSPF_routing_loop(n, tkv, target, OSPF_AS,
                 [source |-> source_area, target |-> target_area], a_n, a_t,
                 {<<0, source, <<>>, step>>}, {}, ord, nord)

ISIS_nodes_mutant_any(ISIS_AS, areas, step) == ISIS_AS.nodes

\* lines 445 and 465-470: the nodes that may be entered: those of the source
\* area while step is False, then those of the backbone and of the target
\* area
ISIS_nodes(ISIS_AS, areas, step) ==
    IF step
    THEN AreaNamed(ISIS_AS, "Backbone").nodes \cup AreaNamed(ISIS_AS, areas.target).nodes
    ELSE AreaNamed(ISIS_AS, areas.source).nodes

\* lines 451-473: while heap; step is one variable of the function, and
\* the heap is emptied when it becomes True
RECURSIVE ISIS_routing_loop(_, _, _, _, _, _, _, _, _, _, _, _)
ISIS_routing_loop(n, tkv, target, ISIS_AS, areas, a_n, a_t, heap, visited, step, ord, nord) ==
    IF heap = {} THEN PathResult(FALSE, FALSE, <<>>, <<>>)
    ELSE LET item == heapmin(heap, ord, nord)
             node == item[2]
             border == ~step /\ node \in border_routers(ISIS_AS)
             pushed == {<<Plus(item[1], TrunkCost(tkv, e[2], node)), e[1],
                          Append(item[3], e[2].name)>> :
                          e \in {f \in AdjSet(n, node) :
                                    /\ f[1] \in a_n
                                    /\ f[2].name \in a_t
                                    /\ f[1] \in ISIS_nodes(ISIS_AS, areas, step \/ border)}}
         IN  IF node \in visited
             THEN ISIS_routing_loop(n, tkv, target, ISIS_AS, areas, a_n, a_t,
                                    heap \ {item}, visited, step, ord, nord)
             ELSE IF node = target
             THEN PathResult(FALSE, FALSE, <<>>, item[3])
             ELSE ISIS_routing_loop(n, tkv, target, ISIS_AS, areas, a_n, a_t,
                                    (IF border THEN {} ELSE heap \ {item}) \cup pushed,
                                    visited \cup {node}, step \/ border, ord, nord)

\* Network.ISIS_routing; lines 434-435 unpack the areas of source and of
\* target, which raises ValueError unless each is in exactly one area
ISIS_routing(n, tkv, source, target, ISIS_AS, a_n, a_t, ord, nord) ==
    LET sa == NodeAreas(ISIS_AS, source)
        ta == NodeAreas(ISIS_AS, target)
        source_area == CHOOSE r \in sa : TRUE
        target_area == CHOOSE r \in ta : TRUE
    IN  IF Cardinality(sa) # 1 \/ Cardinality(ta) # 1
        THEN PathResult(TRUE, FALSE, <<>>, <<>>)
        ELSE ISIS_routing_loop(n, tkv, target, ISIS_AS,
                 [source |-> source_area, target |-> target_area], a_n, a_t,
                 {<<0, source, <<>>>>}, {}, source_area \in {"Backbone", target_area},
                 ord, nord)

(***************************************************************************)
(* Calls of OSPF_routing and ISIS_routing on the four routers of the       *)
(* square with its diagonal, every trunk present or absent, in one AS of   *)
(* three areas.  In an OSPF AS each trunk is in one area, and a node is in *)
(* the areas of its trunks; in an IS-IS AS each node is in one area or in  *)
(* two, and a trunk is in the areas that both its ends are in.             *)
(***************************************************************************)
ProtoAreas == <<"Backbone", "area1", "area2">>

\* the costs (costSD, costDS) of the trunks, by slot
ProtoCosts == {[i \in DOMAIN SquareSlots |-> <<1, 1>>],
               [i \in DOMAIN SquareSlots |-> IF i \in {2, 3} THEN <<3, 3>> ELSE <<1, 1>>]}

\* the sets of areas that a node of an IS-IS AS is in
ISISMemberships == {{2}, {3}, {1}, {1, 2}, {1, 3}}

\* the areas of an OSPF AS whose trunks are in the areas area[i], by slot
OSPFAreasOf(n, present, area) ==
    [r \in DOMAIN ProtoAreas |->
        LET T == {SlotName(i, present) : i \in {j \in present : area[j] = r}}
        IN  [name |-> ProtoAreas[r], trunks |-> T, nodes |-> Ends(n, T)]]

\* the areas of an IS-IS AS whose nodes are in the areas member[x]
ISISAreasOf(n, member) ==
    [r \in DOMAIN ProtoAreas |->
        LET N == {x \in DOMAIN member : r \in member[x]}
        IN  [name |-> ProtoAreas[r],
             trunks |-> {t \in DOMAIN n.pn.trunk : Ends(n, {t}) \subseteq N},
             nodes |-> N]]

\* the state in which a routing function of a protocol is called
ProtoStart(n, type, areas, cost, present) ==
    LET slotOf(x) == CHOOSE i \in present : SlotName(i, present) = x
    IN  /\ net = n
        /\ gen = NoGen
        /\ call = AlgoCall("init", <<>>, None)
        /\ cfg = [K |-> DefaultK, anyOrder |-> TRUE]
        /\ asys = <<[name |-> AutoName("AS", 1), type |-> type,
                     trunks |-> DOMAIN n.pn.trunk,
                     nodes |-> DOMAIN n.pn.node, areas |-> areas]>>
        /\ tk = [x \in DOMAIN n.pn.trunk |-> AlgoTrunk(cost[slotOf(x)], 0)]
        /\ router = [x \in DOMAIN n.pn.node |-> NewRouter]
        /\ tf = EmptyPool
        /\ pc = At("idle", 0, 0, 0)
        /\ lb = NoLB
        /\ pf = NoPF
        /\ log = <<>>

InitProto ==
    \E present \in SUBSET DOMAIN SquareSlots, cost \in ProtoCosts :
        \/ \E area \in [present -> DOMAIN ProtoAreas] :
              LET n == AS_factories(lf_trunks(FourRouters, SquareSlots, 1, present),
                                    1, <<"OSPF">>)
              IN  ProtoStart(n, "OSPF", OSPFAreasOf(n, present, area), cost, present)
        \/ \E member \in [{N1, N2, N3, N4} -> ISISMemberships] :
              LET n == AS_factories(lf_trunks(FourRouters, SquareSlots, 1, present),
                                    1, <<"ISIS">>)
              IN  ProtoStart(n, "ISIS", ISISAreasOf(n, member), cost, present)

\* the orders of the trunks: that of their creation and its reverse
ProtoOrders ==
    LET created == SortBy(AllTrunks, [k \in AllTrunks |-> k[2]])
    IN  {created, Reversed(created)}

OSPFRoutingCall ==
    /\ call.op = "init"
    /\ asys[1].type = "OSPF"
    /\ \E p \in AlgoPairs, ord \in ProtoOrders, nord \in NodeOrders :
         call' = AlgoCall("OSPF_routing", p,
                     OSPF_routing(net, tk, p[1], p[2], asys[1], asys[1].nodes,
                                  asys[1].trunks, ord, nord))
    /\ tk' = tk
    /\ AlgoFrame

ISISRoutingCall ==
    /\ call.op = "init"
    /\ asys[1].type = "ISIS"
    /\ \E p \in AlgoPairs, ord \in ProtoOrders, nord \in NodeOrders :
         call' = AlgoCall("ISIS_routing", p,
                     ISIS_routing(net, tk, p[1], p[2], asys[1], asys[1].nodes,
                                  asys[1].trunks, ord, nord))
    /\ tk' = tk
    /\ AlgoFrame

NextProto ==
    \/ OSPFRoutingCall
    \/ ISISRoutingCall

SpecProto == InitProto /\ [][NextProto]_vars

(***************************************************************************)
(* Calls of A_star_shortest_pair on the sub-topologies of the square with  *)
(* its diagonal.                                                           *)
(***************************************************************************)
\* the costs (costSD, costDS) of the trunks, by slot
WalkCosts == {[i \in DOMAIN SquareSlots |-> <<1, 1>>],
              [i \in DOMAIN SquareSlots |-> IF i = 1 THEN <<2, 1>> ELSE <<1, 1>>]}

InitWalk ==
    \E present \in SUBSET DOMAIN SquareSlots, cost \in WalkCosts :
        LET n == lf_trunks(FourRouters, SquareSlots, 1, present)
            slotOf(x) == CHOOSE i \in present : SlotName(i, present) = x
        IN  /\ net = n
            /\ gen = NoGen
            /\ call = AlgoCall("init", <<>>, None)
            /\ cfg = [K |-> DefaultK, anyOrder |-> TRUE]
            /\ asys = <<>>
            /\ tk = [x \in DOMAIN n.pn.trunk |-> AlgoTrunk(cost[slotOf(x)], 0)]
            /\ router = [x \in DOMAIN n.pn.node |-> NewRouter]
            /\ tf = EmptyPool
            /\ pc = At("idle", 0, 0, 0)
            /\ lb = NoLB
            /\ pf = NoPF
            /\ log = <<>>

AStarShortestPairCall ==
    /\ call.op = "init"
    /\ \E p \in AlgoPairs, ord \in ProtoOrders, nord \in NodeOrders :
         call' = AlgoCall("A_star_shortest_pair", p,
                     A_star_shortest_pair(net, tk, p[1], p[2], AllNodes, AllTrunks,
                                          ord, nord))
    /\ tk' = tk
    /\ AlgoFrame

SpecWalk == InitWalk /\ [][AStarShortestPairCall]_vars

(***************************************************************************)
(* Calls of bellman_ford on the sub-topologies of the square with its      *)
(* diagonal, with costs below 0.                                           *)
(***************************************************************************)
\* the costs (costSD, costDS) of the trunks, by slot: node1-node2 as
\* bhandari leaves a trunk of its first path (inf along the path, -1
\* against it); the diagonal at -1 from node2 to node3; the diagonal at -1
\* both ways, a cycle of cost -2
BellmanCosts ==
    {[i \in DOMAIN SquareSlots |-> IF i = 1 THEN <<Inf, 0 - 1>> ELSE <<1, 1>>],
     [i \in DOMAIN SquareSlots |-> IF i = 5 THEN <<0 - 1, 1>> ELSE <<1, 1>>],
     [i \in DOMAIN SquareSlots |-> IF i = 5 THEN <<0 - 1, 0 - 1>> ELSE <<1, 1>>]}

InitBellman ==
    \E present \in SUBSET DOMAIN SquareSlots, cost \in BellmanCosts :
        LET n == lf_trunks(FourRouters, SquareSlots, 1, present)
            slotOf(x) == CHOOSE i \in present : SlotName(i, present) = x
        IN  /\ net = n
            /\ gen = NoGen
            /\ call = AlgoCall("init", <<>>, None)
            /\ cfg = [K |-> DefaultK, anyOrder |-> TRUE]
            /\ asys = <<>>
            /\ tk = [x \in DOMAIN n.pn.trunk |-> AlgoTrunk(cost[slotOf(x)], 0)]
            /\ router = [x \in DOMAIN n.pn.node |-> NewRouter]
            /\ tf = EmptyPool
            /\ pc = At("idle", 0, 0, 0)
            /\ lb = NoLB
            /\ pf = NoPF
            /\ log = <<>>

SpecBellman == InitBellman /\ [][BellmanFordCall]_vars

(***************************************************************************)
(* Two runs of calculate_all, one after the other, on the topologies of    *)
(* SpecSquare.  Nothing is changed between the runs: the second starts     *)
(* from the addresses, the routing tables and the paths that the first     *)
(* has left.                                                               *)
(***************************************************************************)
\* the second call of calculate_all, once the first has returned; call
\* keeps what the first has left
CalculateAllAgain ==
    /\ pc.at = "done"
    /\ call = NoCall
    /\ call' = AlgoCall("calculate_all", <<>>, [router |-> router, tk |-> tk, tf |-> tf])
    /\ pc' = At("ip_allocation", 0, 0, 0)
    /\ UNCHANGED <<net, gen, cfg, asys, tk, router, lb, pf, tf, log>>

NextTwice ==
    \/ NextCalc
    \/ CalculateAllAgain

SpecTwice == InitSquare /\ [][NextTwice]_vars

(***************************************************************************)
(* One run of calculate_all on the topologies of SpecSquare, with costs    *)
(* that differ by direction: node1-node3 costs 3 from node1, node3-node4   *)
(* costs 4 from node4, every other cost is 1.                              *)
(***************************************************************************)
\* the costs (costSD, costDS) of the trunks, by slot
AsymCosts == {[i \in DOMAIN SquareSlots |-> <<1, 1>>],
              [i \in DOMAIN SquareSlots |->
                  IF i = 2 THEN <<3, 1>> ELSE IF i = 4 THEN <<1, 4>> ELSE <<1, 1>>]}

InitAsym ==
    \E present \in SUBSET DOMAIN SquareSlots, cost \in AsymCosts :
        Start(Square, present, [i \in present |-> cost[i]],
              [i \in present |-> {<<1, 1>>}], <<"RIP">>, DefaultK, FALSE)

SpecAsym == InitAsym /\ [][NextCalc]_vars

(***************************************************************************)
(* Claims about the store.                                                 *)
(***************************************************************************)
\* no remove_node generator is part-way through its body
Quiescent == gen.state \in {"none", "exhausted"}

LinksOf(n) == UNION {{n.pn[t][k] : k \in DOMAIN n.pn[t]} : t \in link_type}

\* the entries of n's adjacency index that hold link t
EntriesOf(n, t) ==
    {<<x, e>> \in UNION {{<<y, f>> : f \in n.graph[y][t.type]} : y \in DOMAIN n.graph} :
        e[2] = t}

\* C1: whenever every call made so far has completed, each link t of a pool
\* pn[kind] is recorded as (destination, t) on its source and as (source, t)
\* on its destination, each entry of the adjacency index holds a link that
\* is in its pool, and remove_link(t) leaves no entry holding t.
C1_AdjacencySymmetric ==
    Quiescent =>
      /\ \A t \in LinksOf(net) :
            /\ t.source \in DOMAIN net.graph
            /\ t.destination \in DOMAIN net.graph
            /\ <<t.destination, t>> \in net.graph[t.source][t.type]
            /\ <<t.source, t>> \in net.graph[t.destination][t.type]
            /\ EntriesOf(net, t) =
                  {<<t.source, <<t.destination, t>>>>, <<t.destination, <<t.source, t>>>>}
            /\ EntriesOf(remove_link(net, t), t) = {}
      /\ \A x \in DOMAIN net.graph : \A k \in link_type : \A e \in net.graph[x][k] :
            /\ e[2].type = k
            /\ e[2].name \in DOMAIN net.pn[k]
            /\ net.pn[k][e[2].name] = e[2]

\* a link has just been removed and another one is still in its pool
C1_Witness ==
    /\ call.op = "remove_link"
    /\ \E t \in LinksOf(net) : t.source \in DOMAIN net.pn.node

\* C2: in every reachable state a factory called with a name that is in its
\* pool returns the entity of that name and changes nothing, whatever the
\* other arguments; and every entity is filed under its own name, so no pool
\* holds two entities of one name.
C2_FactoriesIdempotent ==
    /\ \A x \in DOMAIN net.pn.node : \A st \in SubtypeArgs :
          nf(net, st, x) = Result(net, net.pn.node[x])
    /\ \A k \in link_type : \A x \in DOMAIN net.pn[k] : \A p \in ProtocolArgs :
          \A s \in LiveNodes \cup {None} : \A d \in LiveNodes \cup {None} :
            lf(net, p, k, x, s, d) = Result(net, net.pn[k][x])
    /\ \A x \in DOMAIN net.pnAS : \A t \in ASTypeArgs :
          AS_factory(net, x, t) = Result(net, net.pnAS[x])
    /\ \A k \in pool_type : \A x \in DOMAIN net.pn[k] : net.pn[k][x].name = x
    /\ \A x \in DOMAIN net.pnAS : net.pnAS[x].name = x

\* lf has just been called with the name of a link of the pool, while the
\* node pool and the AS pool hold entities too
C2_Witness ==
    /\ call.op = "lf"
    /\ call.found
    /\ DOMAIN net.pn.node # {}
    /\ DOMAIN net.pnAS # {}

\* C3: a factory called without a name creates an entity: the pool grows by
\* one and the generated name was not in the pool.
C3_AutoNameFresh ==
    /\ \A st \in SubtypeArgs :
          /\ AutoName("node", net.cpt_node) \notin DOMAIN net.pn.node
          /\ Cardinality(DOMAIN nf(net, st, None).net.pn.node)
                = Cardinality(DOMAIN net.pn.node) + 1
    /\ \A k \in link_type : \A s \in LiveNodes : \A d \in LiveNodes :
          /\ AutoName(k, net.cpt_link) \notin DOMAIN net.pn[k]
          /\ Cardinality(DOMAIN lf(net, "ethernet", k, None, s, d).net.pn[k])
                = Cardinality(DOMAIN net.pn[k]) + 1
    /\ \A t \in ASTypeArgs :
          /\ AutoName("AS", net.cpt_AS) \notin DOMAIN net.pnAS
          /\ Cardinality(DOMAIN AS_factory(net, None, t).net.pnAS)
                = Cardinality(DOMAIN net.pnAS) + 1

\* C4: of(name, kind) called with the name of an entity of pn[kind] returns
\* that entity and changes nothing.
C4_ObjectFactoryIdempotent ==
    \A k \in pool_type : \A x \in DOMAIN net.pn[k] :
        of(net, x, k) = Result(net, net.pn[k][x])

\* C5: once the generator of remove_node(n) is exhausted, n is out of the
\* node pool, no link with endpoint n is in a pool, no other node's
\* adjacency set holds an entry (n, l), the values yielded are the links that
\* were incident to n, and the other links, the other nodes, their adjacency
\* entries, the ASes and the counters are as they were at the call.
C5_RemoveNodeComplete ==
    gen.state = "exhausted" =>
      LET n == gen.node
          b == gen.before
          Incident == {l \in LinksOf(b) : l.source = n \/ l.destination = n}
      IN  /\ n \notin DOMAIN net.pn.node
          /\ \A l \in LinksOf(net) : l.source # n /\ l.destination # n
          /\ \A x \in DOMAIN net.graph \ {n} : \A k \in link_type :
                \A e \in net.graph[x][k] : e[1] # n
          /\ gen.yielded = Incident
          /\ net.pn.node = DictPop(b.pn.node, n)
          /\ \A k \in link_type :
                /\ DOMAIN net.pn[k] = {x \in DOMAIN b.pn[k] : b.pn[k][x] \notin Incident}
                /\ \A x \in DOMAIN net.pn[k] : net.pn[k][x] = b.pn[k][x]
          /\ \A x \in DOMAIN b.graph \ {n} :
                /\ x \in DOMAIN net.graph
                /\ \A k \in link_type :
                      net.graph[x][k] = {e \in b.graph[x][k] : e[2] \notin Incident}
          /\ net.pnAS = b.pnAS
          /\ <<net.cpt_node, net.cpt_link, net.cpt_AS>>
                = <<b.cpt_node, b.cpt_link, b.cpt_AS>>

\* remove_node has run to its end, it yielded a link, and a link that was
\* not incident to the node is still there
C5_Witness ==
    /\ gen.state = "exhausted"
    /\ gen.yielded # {}
    /\ LinksOf(net) # {}

(***************************************************************************)
(* Claims about addressing.                                                *)
(***************************************************************************)
\* the two addresses trunk x holds
AddressesOf(x) == {tk[x].ipaddressS, tk[x].ipaddressD}

\* the last (AS, area) pair, in the order ip_allocation walks them, that
\* holds trunk x
LastSlot(x) ==
    LET slots == AreaSlots(asys)
        i == CHOOSE j \in DOMAIN slots :
                /\ x \in AreaTrunks(asys, slots[j])
                /\ \A l \in DOMAIN slots : x \in AreaTrunks(asys, slots[l]) => l <= j
    IN  slots[i]

\* C7: once ip_allocation has run, in every area of every AS the addresses
\* of the trunks of the area are pairwise distinct (the two ends of one
\* trunk, and any two trunks); a trunk of an area holds 10.a.r.(4k+1) on S
\* and 10.a.r.(4k+2) on D for the area (a, r) walked last among its areas and
\* a k below the number of trunks of that area; and every trunk of the pool
\* has the mask 255.255.255.252 on both ends.
C7_AddressesDistinct ==
    pc.at # "ip_allocation" =>
        /\ \A i \in DOMAIN AreaSlots(asys) :
             LET T == AreaTrunks(asys, AreaSlots(asys)[i])
             IN  \A x \in T :
                   /\ tk[x].ipaddressS # tk[x].ipaddressD
                   /\ \A y \in T \ {x} : AddressesOf(x) \cap AddressesOf(y) = {}
        /\ \A x \in DOMAIN net.pn.trunk :
             TrunkAS(asys, x) # {} =>
                LET s == LastSlot(x)
                IN  \E k \in 0..(Cardinality(AreaTrunks(asys, s)) - 1) :
                      /\ tk[x].ipaddressS = <<10, s[1] - 1, s[2] - 1, 4 * k + 1>>
                      /\ tk[x].ipaddressD = <<10, s[1] - 1, s[2] - 1, 4 * k + 2>>
        /\ \A x \in DOMAIN net.pn.trunk :
             /\ tk[x].subnetmaskS = Mask30
             /\ tk[x].subnetmaskD = Mask30

\* C7 witness: ip_allocation has run on an area of three trunks, one of
\* which is also in a later area, and on a trunk outside every AS
C7_Witness ==
    /\ pc.at = "subnetwork_allocation"
    /\ \E i \in DOMAIN AreaSlots(asys) :
         LET T == AreaTrunks(asys, AreaSlots(asys)[i])
         IN  /\ Cardinality(T) = 3
             /\ \E x \in T : LastSlot(x) # AreaSlots(asys)[i]
             /\ \E x \in T : tk[x].ipaddressS[4] = 9

(***************************************************************************)
(* Claims about calculate_all.                                             *)
(***************************************************************************)
\* the place of a step in the order the claim states
Rank(e) ==
    CASE e.ev = "ip_allocation" -> 1
      [] e.ev = "subnetwork_allocation" -> 2
      [] e.ev = "interface_allocation" -> 3
      [] e.ev \in {"static_RFT_builder", "RFT_LB_builder", "reset_traffic"} -> 4
      [] e.ev = "remove_failures" -> 5
      [] e.ev = "update_AS_topology" -> 6
      [] e.ev = "RFT_path_finder" -> 7
      [] OTHER -> 8

\* step e was taken before position j of log
Before(e, j) == \E i \in 1..(j - 1) : log[i] = e

\* C6: in every run of calculate_all, the three addressing steps come
\* first, once each and in order, and are complete before any route is in
\* any routing table; a router's static_RFT_builder precedes each of its
\* RFT_LB_builder calls; remove_failures comes after static_RFT_builder of
\* every router and RFT_LB_builder of every router for each of its ASes;
\* update_AS_topology comes after remove_failures; RFT_path_finder is only
\* called after update_AS_topology of every AS; and refresh_all_labels is
\* the last step, taken before calculate_all returns.
C6_PhaseOrder ==
    /\ \A i, j \in DOMAIN log :
         i < j => /\ Rank(log[i]) <= Rank(log[j])
                  /\ Rank(log[i]) <= 3 => Rank(log[i]) < Rank(log[j])
    /\ (\E x \in DOMAIN router : router[x].rt # EmptyRT) =>
         /\ Len(log) >= 3
         /\ \A i \in 1..3 : Rank(log[i]) = i
    /\ \A j \in DOMAIN log :
         /\ log[j].ev = "RFT_LB_builder" =>
              Before(Entry("static_RFT_builder", log[j].arg, None), j)
         /\ log[j].ev = "remove_failures" =>
              \A i \in DOMAIN ftr_router(net) :
                LET x == ftr_router(net)[i]
                IN  /\ Before(Entry("static_RFT_builder", x, None), j)
                    /\ \A k \in DOMAIN NodeAS(asys, x) :
                         Before(Entry("RFT_LB_builder", x,
                                      asys[NodeAS(asys, x)[k]].name), j)
         /\ log[j].ev = "update_AS_topology" =>
              Before(Entry("remove_failures", None, None), j)
         /\ log[j].ev = "RFT_path_finder" =>
              \A a \in DOMAIN asys :
                Before(Entry("update_AS_topology", None, asys[a].name), j)
         /\ log[j].ev = "refresh_all_labels" => j = Len(log)
    /\ pc.at = "done" =>
         /\ log # <<>>
         /\ log[Len(log)].ev = "refresh_all_labels"
         /\ \A x \in DOMAIN net.pn.traffic :
              Before(Entry("RFT_path_finder", x, None), Len(log))

\* C6 witness: calculate_all has returned on a network where a router is in
\* two ASes and a router holds a route RFT_LB_builder wrote
C6_Witness ==
    /\ pc.at = "done"
    /\ \E x \in DOMAIN router : Len(NodeAS(asys, x)) = 2
    /\ \E x \in DOMAIN router :
         \E n \in DOMAIN router[x].rt : \E r \in router[x].rt[n] : r.rtype = "R"

(***************************************************************************)
(* Claims about the routing tables.                                        *)
(***************************************************************************)
\* a path is kept as its end, its cost, its first trunk and its nodes;
\* the paths of P, each extended by one trunk of AS a to a node not on it
Extended(P, a) ==
    UNION {{[end |-> e[1],
             cost |-> p.cost + TrunkCost(tk, e[2], p.end),
             first |-> IF p.first = None THEN e[2].name ELSE p.first,
             nodes |-> p.nodes \cup {e[1]}] :
            e \in {f \in net.graph[p.end].trunk :
                     /\ f[2].name \in asys[a].trunks
                     /\ f[1] \in asys[a].nodes
                     /\ f[1] \notin p.nodes}} : p \in P}

RECURSIVE LoopFree(_, _, _)
LoopFree(P, a, k) == IF k = 0 THEN P ELSE LoopFree(P \cup Extended(P, a), a, k - 1)

\* the loop-free paths inside AS a from s to another node
PathsFrom(s, a) ==
    {p \in LoopFree({[end |-> s, cost |-> 0, first |-> None, nodes |-> {s}]},
                    a, Cardinality(DOMAIN router)) : p.end # s}

\* the route type of subnetwork of trunk t reached through exit trunk first
ClassOf(a, t, first) ==
    IF asys[a].type = "OSPF"
    THEN IF TrunkAreas(asys, t, a) \cap TrunkAreas(asys, first, a) # {}
         THEN "O" ELSE "O IA"
    ELSE "R"

\* the ways to reach subnetwork n from s through AS a: a loop-free path p
\* to an endpoint v of a trunk t with t.sntw = n, at cost(p) + cost(t, v)
WaysTo(s, a, n) ==
    UNION {{[cost |-> p.cost + TrunkCost(tk, e[2], p.end),
             rtype |-> ClassOf(a, e[2].name, p.first),
             first |-> p.first] :
            e \in {f \in net.graph[p.end].trunk : tk[f[2].name].sntw = n}} :
           p \in PathsFrom(s, a)}

\* the ways of the preferred route type: "O" before "O IA"
Preferred(W) ==
    IF \E w \in W : w.rtype = "O" THEN {w \in W : w.rtype = "O"} ELSE W

\* the ASes of s a route of type rtype through exit trunk ex_tk belongs to
RouteAS(s, r) ==
    {a \in DOMAIN asys :
        /\ s \in asys[a].nodes
        /\ r.ex_tk.name \in asys[a].trunks
        /\ (r.rtype = "R") = (asys[a].type = "RIP")}

\* C8: after calculate_all (K = 4), for every router s, every subnetwork n in s.rt
\* and every route of s.rt[n] that is not a connected one, in the AS the
\* route was built for, the cost of the route is the least cost(p) +
\* cost(t, v) over the loop-free paths p inside the AS from s to an endpoint
\* v of a trunk t with t.sntw = n, among the ways of the preferred route
\* type.
C8_RFTOptimal ==
    (pc.at = "done" /\ cfg.K = DefaultK) =>
        \A s \in DOMAIN router : \A n \in DOMAIN router[s].rt :
        \A r \in router[s].rt[n] :
            r.rtype # "C" =>
                \A a \in RouteAS(s, r) :
                    LET W == Preferred(WaysTo(s, a, n))
                    IN  /\ \E w \in W : r.cost = w.cost
                        /\ \A w \in W : r.cost <= w.cost

\* C9: in every state during and after RFT_LB_builder, called with cap K
\* (the default 4 from calculate_all), every entry set of every routing
\* table has at most K routes.
C9_ECMPCap ==
    \A s \in DOMAIN router : \A n \in DOMAIN router[s].rt :
        Cardinality(router[s].rt[n]) <= cfg.K

\* C9 witness: RFT_LB_builder has run with K = 1 for a router that reaches
\* a subnetwork at the least cost through two exit trunks, and holds one
\* route for it
C9_Witness ==
    /\ cfg.K = 1
    /\ pc.at = "done"
    /\ \E s \in DOMAIN router : \E n \in DOMAIN router[s].rt :
       \E a \in DOMAIN asys :
         LET W == WaysTo(s, a, n)
         IN  /\ s \in asys[a].nodes
             /\ \E r \in router[s].rt[n] : r.rtype \in {"R", "O", "O IA"}
             /\ Cardinality(router[s].rt[n]) = 1
             /\ \E v, w \in W :
                  /\ v.first # w.first
                  /\ v.cost = w.cost
                  /\ v.rtype = w.rtype
                  /\ \A u \in W : v.cost <= u.cost

\* C10: after calculate_all (K = 4), the routes of an entry set with more than one
\* route all have the same cost and the same route type.
C10_ECMPUniform ==
    (pc.at = "done" /\ cfg.K = DefaultK) =>
        \A s \in DOMAIN router : \A n \in DOMAIN router[s].rt :
        \A r1, r2 \in router[s].rt[n] :
            /\ r1.cost = r2.cost
            /\ r1.rtype = r2.rtype

(***************************************************************************)
(* Claims about the scenarios on four routers.                             *)
(***************************************************************************)
\* the trunks between x and y
TrunksBetween(x, y) ==
    {t \in DOMAIN net.pn.trunk :
        {net.pn.trunk[t].source, net.pn.trunk[t].destination} = {x, y}}

\* the state is one of a scenario whose trunks join exactly the pairs of ends
Joined(ends) ==
    /\ N4 \in DOMAIN net.pn.node
    /\ \A x, y \in DOMAIN net.pn.node :
         Cardinality(TrunksBetween(x, y)) = IF {x, y} \in ends THEN 1 ELSE 0

\* the diamond A-{B,C}-D of scenario S2: A = node1, B = node2, C = node3, D = node4
IsDiamond == Joined({{N1, N2}, {N1, N3}, {N2, N4}, {N3, N4}})

\* the chain of scenario S1, A = node1, B = node2, C = node4
IsChain == Joined({{N1, N2}, {N2, N4}})

UnitCosts == \A t \in DOMAIN tk : tk[t].costSD = 1 /\ tk[t].costDS = 1

TheTrunk(x, y) == CHOOSE t \in TrunksBetween(x, y) : TRUE

\* the entries of router s for the subnetwork of trunk t
EntriesFor(s, t) ==
    IF tk[t].sntw \in DOMAIN router[s].rt THEN router[s].rt[tk[t].sntw] ELSE {}

Out(s, t) == IF net.pn.trunk[t].source = s THEN tk[t].trafficSD ELSE tk[t].trafficDS

\* the trunks incident to node s
TrunksAt(s) == {t \in DOMAIN net.pn.trunk :
                  s \in {net.pn.trunk[t].source, net.pn.trunk[t].destination}}

RECURSIVE SumOut(_, _)
SumOut(s, T) ==
    IF T = {} THEN <<0, 1>>
    ELSE LET t == CHOOSE x \in T : TRUE
         IN  FracAdd(Out(s, t), SumOut(s, T \ {t}))

\* every demand has been routed and calculate_all has returned; the traffic
\* counters, reset before the demands are routed, hold the shares added
Routed == pc.at = "done" /\ DOMAIN net.pn.traffic # {}

\* the counters of the trunks leaving the source of demand T sum to its
\* throughput, each of the n entries of the source for the destination
\* subnetwork carrying the n-th part
Conserved(T) ==
    LET s == net.pn.traffic[T].source
        d == net.pn.traffic[T].destination
        w == tf[T].throughput
    IN  /\ s # d => SumOut(s, TrunksAt(s)) = w
        /\ s # d =>
             \E x \in TrunksAt(d) :
                LET E == EntriesFor(s, x)
                IN  /\ E # {}
                    /\ \A t \in TrunksAt(s) :
                         Out(s, t) = IF \E r \in E : r.ex_tk.name = t
                                     THEN FracDiv(w, Cardinality(E))
                                     ELSE <<0, 1>>

\* the trunks of the path x, y, z carry c each, in the direction x -> y -> z
Carries(x, y, z, c) ==
    /\ Out(x, TheTrunk(x, y)) = c
    /\ Out(y, TheTrunk(y, z)) = c

PathFinderRaised(T) ==
    /\ pc.at = "raised"
    /\ log # <<>>
    /\ log[Len(log)] = Entry("RFT_path_finder", T, None)

\* C13: if the destination subnetwork is absent from the routing table of
\* the source or of an intermediate router while demand T is routed,
\* RFT_path_finder raises no exception (T.path becomes the empty set and
\* calculate_all goes on with the remaining demands and the labels).
C13_UnroutedNotThrown ==
    \A T \in DOMAIN net.pn.traffic :
        TrunksAt(net.pn.traffic[T].destination) # {} => ~PathFinderRaised(T)

\* C14: a demand whose destination has no incident trunk makes neither
\* RFT_path_finder nor calculate_all raise (it gets the empty path, and no
\* traffic counter changes).
C14_IsolatedNotThrown ==
    \A T \in DOMAIN net.pn.traffic :
        TrunksAt(net.pn.traffic[T].destination) = {} => ~PathFinderRaised(T)

\* the end of trunk t that is not s
OtherEnd(s, t) ==
    IF net.pn.trunk[t].source = s
    THEN net.pn.trunk[t].destination ELSE net.pn.trunk[t].source

\* C19: after calculate_all, for every router s and every trunk t incident to
\* s, s.rt[t.sntw] contains the connected entry ('C', address of t on the
\* neighbor's side, interface of t on s's side, 0, neighbor, t), and no
\* connected entry has a cost other than 0.
C19_ConnectedRoutes ==
    pc.at = "done" =>
        \A s \in DOMAIN router :
            /\ \A t \in TrunksAt(s) :
                 Route("C", TrunkIp(tk, net.pn.trunk[t], OtherEnd(s, t)),
                       TrunkInterface(tk, net.pn.trunk[t], s), 0,
                       OtherEnd(s, t), net.pn.trunk[t]) \in EntriesFor(s, t)
            /\ \A n \in DOMAIN router[s].rt :
                 \A r \in router[s].rt[n] : r.rtype = "C" => r.cost = 0

(***************************************************************************)
(* Claims about the route types of OSPF.                                   *)
(***************************************************************************)
\* the step is the turn of RFT_LB_builder's loop that pops item
Turned(item) ==
    \E walk \in Perms(net.graph[item[2]].trunk) :
    \E out \in LB_turn(net, asys, tk, cfg.K, lb, router[lb.source].rt, item, walk) :
        /\ router' = [router EXCEPT ![lb.source].rt = out.rt]
        /\ lb' = IF out.lb.heap = {} THEN NoLB ELSE out.lb

\* the candidates of the turn that pops item: for each trunk of the node
\* whose other end is not the source, the subnetwork and the route
CandidatesOf(item) ==
    LET ex_tk == net.pn.trunk[item[3][1]]
        nh == IF ex_tk.source = lb.source THEN ex_tk.destination ELSE ex_tk.source
    IN  {[sntw |-> tk[e[2].name].sntw,
          route |-> Route(IF TrunkAreas(asys, e[2].name, lb.AS)
                                \cap TrunkAreas(asys, ex_tk.name, lb.AS) # {}
                             THEN "O" ELSE "O IA",
                          TrunkIp(tk, ex_tk, nh), TrunkInterface(tk, ex_tk, lb.source),
                          item[1] + TrunkCost(tk, e[2], item[2]), nh, ex_tk)] :
            e \in {f \in net.graph[item[2]].trunk : f[1] # lb.source}}

\* the entries of the source of the running RFT_LB_builder for subnetwork n
Held(n) == IF n \in DOMAIN router[lb.source].rt THEN router[lb.source].rt[n] ELSE {}

\* C20: in RFT_LB_builder on an OSPF AS, for every subnetwork n: a candidate
\* of type 'O IA' met while s.rt[n] holds an 'O' entry removes no 'O' entry,
\* and a candidate of type 'O' met while s.rt[n] holds only 'O IA' entries
\* leaves s.rt[n] equal to the set of that single 'O' entry, whatever its
\* cost.
C20_OSPFPrecedence ==
    [][(pc.at = "LB" /\ asys[lb.AS].type = "OSPF") =>
        \A item \in heappop(lb.heap) :
            (item[2] # lb.source /\ Turned(item)) =>
                \A c \in CandidatesOf(item) :
                    /\ c.route.rtype = "O IA" =>
                         \A r \in Held(c.sntw) :
                             r.rtype = "O" => r \in router'[lb.source].rt[c.sntw]
                    /\ (c.route.rtype = "O" /\ Held(c.sntw) # {}
                           /\ \A r \in Held(c.sntw) : r.rtype = "O IA") =>
                         router'[lb.source].rt[c.sntw] = {c.route}]_vars

\* an 'O IA' candidate for n came first and an 'O' candidate then, and the
\* entries for n are a single 'O' entry
C20_Witness ==
    /\ pc.at = "LB"
    /\ asys[lb.AS].type = "OSPF"
    /\ \E n \in DOMAIN router[lb.source].rt :
         /\ {<<"O", n>>, <<"O IA", n>>} \subseteq lb.visited_subnetworks
         /\ Cardinality(Held(n)) = 1
         /\ \A r \in Held(n) : r.rtype = "O"

(***************************************************************************)
(* Claims about the algorithms.                                            *)
(***************************************************************************)
\* the trunks and the nodes in the order of their creation
Creation(S) == SortBy(S, [k \in S |-> k[2]])

\* what dijkstra returns for source a and target b (its dist depends on no
\* order)
DijkstraFrom(a, b) ==
    dijkstra(net, tk, a, b, AllTrunks, AllNodes, Creation(AllTrunks), Creation(AllNodes))

\* C17: for every ordered pair of nodes (a, b), floyd_warshall()[a][b] equals
\* the dist[b] that dijkstra returns from source a (costs are non-negative,
\* costSD and costDS may differ, two trunks may join the same nodes).
C17_FloydWarshallDijkstra ==
    (call.op = "floyd_warshall" /\ ~call.ret.negative) =>
        \A a, b \in AllNodes :
            ~DijkstraFrom(a, b).raised =>
                call.ret.all_length[a][b] = DijkstraFrom(a, b).dist[b]

\* the nodes joined to the nodes of R by a trunk, and so on k times
RECURSIVE Reach(_, _)
Reach(R, k) ==
    IF k = 0 THEN R
    ELSE Reach(R \cup {x \in AllNodes : \E y \in R : TrunksBetween(x, y) # {}}, k - 1)

Reachable(a, b) == b \in Reach({a}, Cardinality(AllNodes))

PathFunctions == {"dijkstra", "A_star", "bellman_ford", "traffic_routing"}

\* C18: when the target is not reachable from the source, a path function
\* (dijkstra, A_star, bellman_ford, traffic_routing; the routing functions
\* of the protocols end as A_star does) raises nothing and returns a result
\* whose list of path links is the empty list.
C18_NoPathIsAValue ==
    (call.op \in PathFunctions /\ ~Reachable(call.args[1], call.args[2])) =>
        /\ ~call.ret.raised
        /\ ~call.ret.none
        /\ call.ret.path = <<>>

\* the sets of trunks of R that form a simple path from u to t through no
\* node of seen
RECURSIVE SimplePathSets(_, _, _, _)
SimplePathSets(R, u, t, seen) ==
    IF u = t THEN {{}}
    ELSE UNION {{{x} \cup p : p \in SimplePathSets(R, OtherEnd(u, x), t, seen \cup {u})} :
                  x \in {y \in R : /\ u \in {net.pn.trunk[y].source, net.pn.trunk[y].destination}
                                   /\ OtherEnd(u, y) \notin seen \cup {u}}}

\* R is two simple paths from s to t that share no trunk
TwoDisjointPaths(R, s, t) ==
    \E p, q \in SimplePathSets(R, s, t, {}) : p \cap q = {} /\ p \cup q = R

\* the graph holds two simple paths from s to t that share no trunk
HasDisjointPair(s, t) ==
    \E p, q \in SimplePathSets(AllTrunks, s, t, {}) : p \cap q = {}

PairFunctions == {"bhandari", "suurbale"}

IsS5 ==
    /\ Joined({{N1, N2}, {N1, N3}, {N2, N4}, {N3, N4}, {N2, N3}})
    /\ \A t \in AllTrunks :
         LET c == IF t \in TrunksBetween(N2, N3) THEN 3 ELSE 1
         IN  tk[t].flowSD = c /\ tk[t].flowDS = c

RECURSIVE CutCapacity(_, _)
CutCapacity(S, T) ==
    IF T = {} THEN 0
    ELSE LET t == CHOOSE x \in T : TRUE
             l == net.pn.trunk[t]
             c == IF l.source \in S /\ l.destination \notin S THEN tk[t].capacitySD
                  ELSE IF l.destination \in S /\ l.source \notin S THEN tk[t].capacityDS
                  ELSE 0
         IN  c + CutCapacity(S, T \ {t})

\* the maximum flow from s to d: the least capacity of a cut between them
MaxFlow(s, d) ==
    LET cuts == {CutCapacity(S, AllTrunks) :
                    S \in {X \in SUBSET AllNodes : s \in X /\ d \notin X}}
    IN  CHOOSE c \in cuts : \A e \in cuts : c <= e

\* the flow that leaves node s, by the fields of the trunks
RECURSIVE FlowLeaving(_, _)
FlowLeaving(s, T) ==
    IF T = {} THEN 0
    ELSE LET t == CHOOSE x \in T : TRUE
         IN  TrunkFlow(tk, net.pn.trunk[t], s) + FlowLeaving(s, T \ {t})

FlowFunctions == {"ford_fulkerson", "edmonds_karp", "dinic"}

\* C16: for every pair source # destination, whichever end of its trunks the
\* source is and with two trunks between the same nodes allowed, each of
\* ford_fulkerson, edmonds_karp and dinic raises nothing and returns one
\* value, which is the flow that leaves the source in the fields of the
\* trunks and the maximum flow from source to destination, whatever the
\* flows were before the call (11 on the graph of S6).
C16_MaxFlowAgreement ==
    call.op \in FlowFunctions =>
        /\ ~call.ret.raised
        /\ ~call.ret.tuple
        /\ call.ret.value = FlowLeaving(call.args[1], TrunksAt(call.args[1]))
        /\ call.ret.value = MaxFlow(call.args[1], call.args[2])

\* the costs of every trunk are the same before and after the step
CostsKept ==
    \A t \in DOMAIN tk :
        /\ t \in DOMAIN tk'
        /\ tk'[t].costSD = tk[t].costSD
        /\ tk'[t].costDS = tk[t].costDS

\* C21: for every topology and pair (s, t), with or without a path and a
\* second path, when bhandari(s, t) returns every trunk has the costSD and
\* costDS it had before the call.
C21_BhandariRestores ==
    [][(call.op = "init" /\ call'.op = "bhandari") =>
           (~call'.ret.raised /\ CostsKept)]_tk

\* bhandari has returned two paths, whose costs it had changed, and every
\* cost is the one it saved in the flow fields
C21_Witness ==
    /\ call.op = "bhandari"
    /\ ~call.ret.raised
    /\ Cardinality(call.ret.ret) >= 4
    /\ \A t \in DOMAIN tk :
         tk[t].costSD = tk[t].flowSD /\ tk[t].costDS = tk[t].flowDS

\* C29: for every topology and pair (s, t), when suurbale(s, t) returns
\* every trunk has the costSD and costDS it had before the call.
C29_SuurbaleRestores ==
    [][(call.op = "init" /\ call'.op = "suurbale" /\ ~call'.ret.raised) =>
           CostsKept]_tk

(***************************************************************************)
(* Claims about the routing functions of the protocols.                    *)
(***************************************************************************)
\* the nodes met when the trunks of path are followed from node s; None
\* from the first trunk on that does not leave the node reached
RECURSIVE WalkOf(_, _)
WalkOf(s, path) ==
    IF path = <<>> THEN <<s>>
    ELSE IF s \in Ends(net, {Head(path)})
    THEN <<s>> \o WalkOf(OtherEnd(s, Head(path)), Tail(path))
    ELSE <<s>> \o [i \in 1..Len(path) |-> None]

\* path is a contiguous sequence of trunks from s to t
Contiguous(s, t, path) == WalkOf(s, path)[Len(path) + 1] = t

\* path is made of trunks of first, then of trunks of second, then of
\* trunks of third
ThreeRegions(path, first, second, third) ==
    \E i \in 0..Len(path) : \E j \in i..Len(path) :
        \A k \in 1..Len(path) :
            path[k] \in (IF k <= i THEN first ELSE IF k <= j THEN second ELSE third)

\* C23: every path that OSPF_routing returns is a contiguous sequence of
\* trunks from source to target, made of trunks of the source area, then of
\* trunks of the backbone, then of trunks of the target area, the area of an
\* end that is in two areas or more being the backbone.
C23_OSPFRegions ==
    (call.op = "OSPF_routing" /\ ~call.ret.raised /\ call.ret.path # <<>>) =>
        /\ Contiguous(call.args[1], call.args[2], call.ret.path)
        /\ ThreeRegions(call.ret.path,
               AreaNamed(asys[1], OSPF_area(asys[1], call.args[1])).trunks,
               AreaNamed(asys[1], "Backbone").trunks,
               AreaNamed(asys[1], OSPF_area(asys[1], call.args[2])).trunks)

\* OSPF_routing has returned a path of a trunk of area1, a trunk of the
\* backbone and a trunk of area2
C23_Witness ==
    /\ call.op = "OSPF_routing"
    /\ ~call.ret.raised
    /\ Len(call.ret.path) = 3
    /\ OSPF_area(asys[1], call.args[1]) = "area1"
    /\ OSPF_area(asys[1], call.args[2]) = "area2"
    /\ call.ret.path[1] \in AreaNamed(asys[1], "area1").trunks
    /\ call.ret.path[2] \in AreaNamed(asys[1], "Backbone").trunks
    /\ call.ret.path[3] \in AreaNamed(asys[1], "area2").trunks

\* the areas of source and of target, for a call of ISIS_routing whose ends
\* are each in one area
ISISAreas ==
    [source |-> CHOOSE r \in NodeAreas(asys[1], call.args[1]) : TRUE,
     target |-> CHOOSE r \in NodeAreas(asys[1], call.args[2]) : TRUE]

\* source and target of the call are each in one area, these areas differ
\* and neither is the backbone
DifferentAreas ==
    /\ Cardinality(NodeAreas(asys[1], call.args[1])) = 1
    /\ Cardinality(NodeAreas(asys[1], call.args[2])) = 1
    /\ ISISAreas.source # ISISAreas.target
    /\ "Backbone" \notin {ISISAreas.source, ISISAreas.target}

\* C24: when source and target are in different areas, neither the
\* backbone, every path that ISIS_routing returns is a contiguous sequence
\* of trunks from source to target; its nodes up to the first border router,
\* included, are in the source area, and its nodes after that border router
\* are in the backbone or in the target area.
C24_ISISRegions ==
    (call.op = "ISIS_routing" /\ ~call.ret.raised /\ call.ret.path # <<>>
        /\ DifferentAreas) =>
        LET W == WalkOf(call.args[1], call.ret.path)
        IN  /\ Contiguous(call.args[1], call.args[2], call.ret.path)
            /\ \E b \in DOMAIN W :
                 /\ W[b] \in border_routers(asys[1])
                 /\ \A k \in 1..(b - 1) : W[k] \notin border_routers(asys[1])
                 /\ \A k \in 1..b : W[k] \in ISIS_nodes(asys[1], ISISAreas, FALSE)
                 /\ \A k \in (b + 1)..Len(W) : W[k] \in ISIS_nodes(asys[1], ISISAreas, TRUE)

\* ISIS_routing has returned a path of three trunks between two areas, while
\* a trunk leads from the source to a node outside its area
C24_Witness ==
    /\ call.op = "ISIS_routing"
    /\ ~call.ret.raised
    /\ DifferentAreas
    /\ Len(call.ret.path) = 3
    /\ WalkOf(call.args[1], call.ret.path)[2] \in border_routers(asys[1])
    /\ WalkOf(call.args[1], call.ret.path)[3] \notin AreaNamed(asys[1], ISISAreas.target).nodes
    /\ \E t \in TrunksAt(call.args[1]) :
         OtherEnd(call.args[1], t) \notin AreaNamed(asys[1], ISISAreas.source).nodes

(***************************************************************************)
(* Claims about A_star_shortest_pair.                                      *)
(***************************************************************************)
\* the place of the last visit of node t on the walk W, 0 if there is none
LastVisit(W, t) ==
    IF \E i \in DOMAIN W : W[i] = t
    THEN CHOOSE i \in DOMAIN W : W[i] = t /\ \A j \in DOMAIN W : W[j] = t => j <= i
    ELSE 0

\* C25: a trunk list that A_star_shortest_pair(s, t) returns, s # t, is a
\* closed walk from s through t back to s whose part after the last visit of
\* t uses no trunk of the part before it; no trunk is used twice, so the two
\* parts are link-disjoint paths between s and t.
C25_ClosedWalk ==
    (call.op = "A_star_shortest_pair" /\ call.ret.path # <<>>) =>
        LET path == call.ret.path
            W == WalkOf(call.args[1], path)
            L == LastVisit(W, call.args[2])
        IN  /\ Contiguous(call.args[1], call.args[1], path)
            /\ L > 1
            /\ {path[k] : k \in 1..(L - 1)} \cap {path[k] : k \in L..Len(path)} = {}
            /\ \A i, j \in DOMAIN path : path[i] = path[j] => i = j

\* A_star_shortest_pair has returned the four trunks of the square, while
\* the diagonal is there
C25_Witness ==
    /\ call.op = "A_star_shortest_pair"
    /\ Len(call.ret.path) = 4
    /\ Cardinality(DOMAIN net.pn.trunk) = 5
    /\ LastVisit(WalkOf(call.args[1], call.ret.path), call.args[2]) = 3

\* C26: A_star_shortest_pair(s, t) ends on every topology, and returns
\* ([], []) when there are no two link-disjoint paths between s and t.
C26_PairTerminates ==
    call.op = "A_star_shortest_pair" =>
        /\ ~call.ret.hangs
        /\ ~HasDisjointPair(call.args[1], call.args[2]) => call.ret.path = <<>>

(***************************************************************************)
(* Claims about bellman_ford with costs below 0.                           *)
(***************************************************************************)
\* C22: bellman_ford always returns: ([], []) when the target is not
\* reachable, else, also with costs below 0 and with a cycle of cost below
\* 0, a contiguous path of trunks from source to target.
C22_BellmanFordEnds ==
    call.op = "bellman_ford" =>
        /\ ~call.ret.hangs
        /\ ~call.ret.raised
        /\ call.ret.path # <<>> => Contiguous(call.args[1], call.args[2], call.ret.path)
        /\ ~Reachable(call.args[1], call.args[2]) =>
              call.ret.nodes = <<>> /\ call.ret.path = <<>>

(***************************************************************************)
(* Claims about the flows that the maximum flow functions leave.           *)
(***************************************************************************)
\* the flow that leaves node x by the trunks of T
RECURSIVE NetFlow(_, _, _)
NetFlow(tkv, x, T) ==
    IF T = {} THEN 0
    ELSE LET t == CHOOSE y \in T : TRUE
         IN  (IF net.pn.trunk[t].source = x THEN tkv[t].flowSD ELSE tkv[t].flowDS)
             + NetFlow(tkv, x, T \ {t})

\* the flows of tkv are a feasible flow from s to d
Feasible(tkv, s, d) ==
    /\ \A t \in DOMAIN tkv :
         /\ tkv[t].flowSD <= tkv[t].capacitySD
         /\ tkv[t].flowDS <= tkv[t].capacityDS
         /\ tkv[t].flowSD = 0 - tkv[t].flowDS
    /\ \A x \in AllNodes \ {s, d} : NetFlow(tkv, x, TrunksAt(x)) = 0

\* the flows after k augmentation steps of ford_fulkerson, from flows 0
RECURSIVE AfterFF(_, _, _, _)
AfterFF(k, s, d, ord) ==
    IF k = 0 THEN reset_flow(tk)
    ELSE augment_ff(net, AfterFF(k - 1, s, d, ord), Inf, s, d, {}, ord).tk

\* the flows after k augmentation steps of edmonds_karp, from flows 0; a
\* step that raises is not a step
RECURSIVE AfterEK(_, _, _, _)
AfterEK(k, s, d, ord) ==
    IF k = 0 THEN reset_flow(tk)
    ELSE LET tkv == AfterEK(k - 1, s, d, ord)
             a == augment_ek(net, tkv, s, d, ord)
             w == edmonds_karp_walk(net, tkv, a.augmenting_path, a.global_flow, d, s)
         IN  IF a.raised \/ a.global_flow = 0 \/ w.raised THEN tkv ELSE w.tk

\* the flows after k augmentation steps of dinic, from flows 0
RECURSIVE AfterDI(_, _, _, _)
AfterDI(k, s, d, ord) ==
    IF k = 0 THEN reset_flow(tk)
    ELSE LET tkv == AfterDI(k - 1, s, d, ord)
             st == dinic_levels(net, tkv,
                       [level |-> [x \in AllNodes |-> IF x = s THEN 0 ELSE NoLevel],
                        Q |-> <<s>>, flow |-> <<>>], ord)
             limit == sum_flow(tkv, AdjSet(net, s),
                          [e \in AdjSet(net, s) |->
                              IF s = e[2].source THEN "capacitySD" ELSE "capacityDS"]).value
         IN  IF st.level[d] = NoLevel THEN tkv
             ELSE augment_di(net, tkv, st.level, s, d, limit, ord).tk

\* the most augmentation steps looked at
MaxSteps == 4

\* C28: after a call of ford_fulkerson, edmonds_karp or dinic that returns,
\* and after every augmentation step of a call, every trunk has flowSD <=
\* capacitySD, flowDS <= capacityDS and flowSD = -flowDS, and the flow that
\* leaves a node other than source and destination sums to 0.  The flows
\* left by ford_fulkerson and by dinic are looked at also when the return
\* statement raises.
C28_Feasible ==
    call.op \in FlowFunctions =>
        /\ (call.op = "edmonds_karp" => ~call.ret.raised) =>
              Feasible(tk, call.args[1], call.args[2])
        /\ \A k \in 0..MaxSteps, ord \in TrunkOrders :
             Feasible(CASE call.op = "ford_fulkerson" ->
                               AfterFF(k, call.args[1], call.args[2], ord)
                        [] call.op = "edmonds_karp" ->
                               AfterEK(k, call.args[1], call.args[2], ord)
                        [] OTHER -> AfterDI(k, call.args[1], call.args[2], ord),
                      call.args[1], call.args[2])

\* a call has returned and has left a flow of 11 from node1 to node4, one
\* trunk carrying flow from its destination to its source
C28_Witness ==
    /\ call.op \in FlowFunctions
    /\ ~call.ret.raised
    /\ call.args = <<N1, N4>>
    /\ NetFlow(tk, N1, TrunksAt(N1)) = 11
    /\ \E t \in DOMAIN tk : tk[t].flowSD < 0

(***************************************************************************)
(* Claims about a second run of calculate_all.                             *)
(***************************************************************************)
\* C27: on an unchanged topology a second call of calculate_all raises
\* nothing, and when it has returned every routing table, the addresses, the
\* interfaces and the traffic counters of every trunk, and the path of every
\* demand are what the first call left.
C27_Repeatable ==
    call.op = "calculate_all" =>
        /\ pc.at # "raised"
        /\ pc.at = "done" =>
              /\ router = call.ret.router
              /\ tk = call.ret.tk
              /\ tf = call.ret.tf

(***************************************************************************)
(* Claims about the routers that RFT_path_finder goes through.             *)
(***************************************************************************)
\* the routers that RFT_path_finder pushes when it pops router x: the next
\* hops of the entries of x for the destination subnetwork
NextHops(x) ==
    IF x = net.pn.traffic[pf.traffic].destination \/ pf.dest_int \notin DOMAIN router[x].rt
    THEN {}
    ELSE {e.nh : e \in router[x].rt[pf.dest_int]}

\* the routers reached from those of S in one step or more, and at most k
RECURSIVE Downstream(_, _)
Downstream(S, k) ==
    IF k = 0 THEN {}
    ELSE LET next == UNION {NextHops(x) : x \in S}
         IN  next \cup Downstream(next, k - 1)

\* the routers that the demand being routed goes through
OnTheWay ==
    LET source == net.pn.traffic[pf.traffic].source
    IN  {source} \cup Downstream({source}, Cardinality(DOMAIN router))

\* C30: while RFT_path_finder routes a demand over the tables that
\* calculate_all has built, with trunk costs above 0 that may differ by
\* direction, no router on the way is reached again from itself (so that
\* the stack empties).
C30_NoForwardingLoop ==
    pc.at = "PF" =>
        \A x \in OnTheWay : x \notin Downstream({x}, Cardinality(DOMAIN router))

====
